---- MODULE Spec2Model ----
(***************************************************************************)
(* A model of server.js, the multi-tenant LINE bot relay: the webhook      *)
(* handler POST /webhook/:botId with its helpers (verifySignature,         *)
(* getAIResponse, replyToLine, textToSpeech, storeAudio, ...), and the     *)
(* in-process maps conversationHistory, lastBotResponse and audioStorage.  *)
(*                                                                         *)
(* A text is a sequence of UTF-16 code units, each a one-unit string, so    *)
(* that toLowerCase, includes, substring, length and the template          *)
(* `${botId}_${userId}` are computed as the code computes them.  The fixed  *)
(* reply literals, whose length no code path measures, are kept as one      *)
(* token.                                                                   *)
(*                                                                         *)
(* JavaScript runs one task at a time and a task gives up control only at  *)
(* an await.  The variable running names the task that holds control: its  *)
(* steps up to the next await are taken with no step of another task in    *)
(* between.  A step that resolves an await needs running = None.           *)
(***************************************************************************)
EXTENDS Naturals, Integers, Sequences, FiniteSets, TLC

VARIABLES
    bots,                 \* the table bots of the database: id -> row
    conversationHistory,  \* server.js:26, historyKey -> sequence of turns
    lastBotResponse,      \* server.js:52, responseKey -> text
    audioStorage,         \* server.js:49, audioId -> [buffer, createdAt]
    audioSeq,             \* number of audio ids drawn so far
    now,                  \* Date.now(), in minutes
    ttsKey,               \* whether GOOGLE_TTS_API_KEY is set (server.js:46)
    task,                 \* the webhook deliveries being handled
    running,              \* {t} when task t holds control, or None
    received,             \* number of requests received so far
    fetched,              \* the answer of the last GET /audio/:audioId
    admin,                \* the POST /api/register requests being handled
    streak                \* historyKey -> consecutive successful turns since
                          \* the session was last empty, or Broken

vars == <<bots, conversationHistory, lastBotResponse, audioStorage, audioSeq,
          now, ttsKey, task, running, received, fetched, admin, streak>>

\* running = None: no task holds control; running = {t}: task t does
None == {}
Broken == 0 - 1

----------------------------------------------------------------------------
(* Bounds of the model *)

\* deliveries received in one run of Spec
MaxDeliveries == 2
\* deliveries received in one run of SpecCap
MaxCapDeliveries == 12
\* deliveries received in one run of SpecAudio, and the minutes it lasts
MaxAudioDeliveries == 2
MaxTime == 6
\* deliveries received in one run of SpecBatch
MaxBatchDeliveries == 2
\* deliveries received in one run of SpecSplit
MaxSplitDeliveries == 2
\* registrations received in one run of SpecRegistry
MaxRegistrations == 3
\* registrations and removals received in one run of SpecAdmin
MaxAdminRequests == 3
\* deliveries in SpecPairs
MaxPairDeliveries == 3
\* deliveries in SpecReset
MaxResetDeliveries == 3
\* deliveries and registry requests in SpecLife
MaxLifeRequests == 4

----------------------------------------------------------------------------
(* Program constants *)

\* server.js:318-319, the history cap
HistoryLimit == 20
\* server.js:220, textToSpeech cuts its input
TtsMaxChars == 5000
\* server.js:539
maxLength == 4500
\* server.js:261, in minutes
AudioTtlMinutes == 5

----------------------------------------------------------------------------
(* Texts *)

Upper == <<"A","B","C","D","E","F","G","H","I","J","K","L","M",
           "N","O","P","Q","R","S","T","U","V","W","X","Y","Z">>
Lower == <<"a","b","c","d","e","f","g","h","i","j","k","l","m",
           "n","o","p","q","r","s","t","u","v","w","x","y","z">>

ToLowerChar(c) ==
    IF \E i \in 1..26 : Upper[i] = c
    THEN Lower[CHOOSE i \in 1..26 : Upper[i] = c]
    ELSE c

\* the lower-case form of one code unit: one unit, but for the capital I
\* with a dot, U+0130, which becomes i and the combining dot U+0307
lowerUnits(c) ==
    IF c = "U+0130" THEN <<"i", "U+0307">> ELSE << ToLowerChar(c) >>

\* String.prototype.toLowerCase
RECURSIVE toLowerCase(_)
toLowerCase(s) ==
    IF Len(s) = 0 THEN <<>> ELSE lowerUnits(s[1]) \o toLowerCase(Tail(s))

\* String.prototype.includes
includes(s, kw) ==
    \E i \in 0..(Len(s) - Len(kw)) : SubSeq(s, i + 1, i + Len(kw)) = kw

\* String.prototype.substring(from, to), 0-based, to exclusive
substring(s, from, to) ==
    LET a == IF from > Len(s) THEN Len(s) ELSE from
        b == IF to > Len(s) THEN Len(s) ELSE to
    IN  SubSeq(s, a + 1, b)

\* Array.prototype.slice(-n)
sliceLast(a, n) ==
    IF Len(a) <= n THEN a ELSE SubSeq(a, Len(a) - n + 1, Len(a))

CmdReset == <<"/","r","e","s","e","t">>
CmdHelp == <<"/","h","e","l","p">>
CmdListen == <<"/","l","i","s","t","e","n">>

\* server.js:529-533
audioKeywords ==
    { <<"U+8A9E","U+97F3">>, <<"U+807D">>, <<"U+767C","U+97F3">>, <<"U+5FF5">>,
      <<"U+5538">>, <<"U+8B80","U+7D66","U+6211","U+807D">>,
      <<"U+8AAA","U+7D66","U+6211","U+807D">>,
      <<"a","u","d","i","o">>, <<"l","i","s","t","e","n">>,
      <<"v","o","i","c","e">>, <<"s","p","e","a","k">>,
      <<"p","r","o","n","u","n","c","i","a","t","i","o","n">>,
      <<"h","e","a","r">>, <<"s","o","u","n","d">>,
      <<"s","a","y"," ","i","t">>, <<"r","e","a","d"," ","i","t">>,
      <<"l","i","s","t","e","n","i","n","g"," ",
        "p","r","a","c","t","i","c","e">> }

\* server.js:534-536
wantsAudio(userMessage) ==
    \E keyword \in audioKeywords :
        includes(toLowerCase(userMessage), toLowerCase(keyword))

\* The fixed replies (server.js:450, 459, 473, 512, 604, 664, 685)
MsgReset == <<"Conversation reset! Let's start fresh. How can I help you practice today?">>
MsgNothingToPlay == <<"No previous response to listen to. Send me a message first!">>
MsgNoAudio == <<"Sorry, I couldn't generate the audio. Please try again.">>
MsgRetryLater == <<"Sorry, I'm having trouble right now. Please try again in a moment.">>
MsgVoiceRetry == <<"Sorry, I had trouble processing your voice message. Please try again or type your message instead.">>

\* server.js:459, the usage text with the tenant's name and skill label
MsgHelp(cfg) ==
    <<"Welcome to ">> \o cfg.studentName \o <<"'s ">> \o cfg.skillType
        \o <<" Strategy Bot! ... /help - Show this message ... practice ">>
        \o toLowerCase(cfg.skillType) \o <<" strategies!">>

\* server.js:685
MsgWelcome(cfg) ==
    <<"Welcome! I'm ">> \o cfg.studentName \o <<"'s ">> \o cfg.skillType
        \o <<" Strategy Coach. ... learn ">> \o toLowerCase(cfg.skillType)
        \o <<" strategies ... Type /help for more options.">>

\* server.js:638, the memo emoji is two code units
VoiceReplyText(transcribedText, feedback) ==
    <<"U+D83D","U+DCDD"," ","I"," ","h","e","a","r","d"," ","y","o","u"," ",
      "s","a","y",":","\n","\"">>
        \o transcribedText \o <<"\"","\n","\n">> \o feedback

----------------------------------------------------------------------------
(* The registry *)

\* server.js:94-111: the row's columns under the handler's names, as a
\* sequence of length 0 (null) or 1 (the config)
getBotConfig(table, botId) ==
    IF botId \in DOMAIN table
    THEN << [ studentName |-> table[botId].student_name,
              skillType |-> table[botId].skill_type,
              channelAccessToken |-> table[botId].channel_access_token,
              channelSecret |-> table[botId].channel_secret,
              systemPrompt |-> table[botId].system_prompt ] >>
    ELSE <<>>

----------------------------------------------------------------------------
(* Request bodies and signatures *)

(* The bytes of a request body are a sequence of tokens: the events, tokens *)
(* of insignificant whitespace ("ws") and tokens that are no JSON ("bad").  *)
Token(type, mtype, userId, text, id, replyToken) ==
    [ type |-> type, mtype |-> mtype, userId |-> userId, text |-> text,
      id |-> id, replyToken |-> replyToken ]

Ws == Token("ws", "", <<>>, <<>>, <<>>, <<>>)
Bad == Token("bad", "", <<>>, <<>>, <<>>, <<>>)

\* server.js:421: whether JSON.parse(req.body.toString()) returns
JSONparses(raw) == \A i \in 1..Len(raw) : raw[i].type # "bad"

IsSignificant(t) == t.type # "ws"

\* server.js:421: the parsed value; whitespace is not part of it
JSONparse(raw) == [ events |-> SelectSeq(raw, IsSignificant) ]

\* server.js:275: JSON.stringify writes the value with no whitespace
JSONstringify(body) == body.events

\* HMAC-SHA256 under key of bytes, base64: collision free, so two digests
\* are equal exactly when key and bytes are
HmacBase64(key, bytes) == <<"hmac-sha256", key, bytes>>

\* server.js:272-278
verifySignature(body, signature, channelSecret) ==
    HmacBase64(channelSecret, JSONstringify(body)) = signature

----------------------------------------------------------------------------
(* Sessions *)

\* server.js:306, 446, 467, 554
historyKey(botId, userId) == botId \o <<"_">> \o userId

Put(f, k, v) == [ x \in DOMAIN f \cup {k} |-> IF x = k THEN v ELSE f[x] ]

Turn(role, content) == [ role |-> role, content |-> content ]

\* the session under key, empty when the key is absent
SessionOf(history, key) ==
    IF key \in DOMAIN history THEN history[key] ELSE <<>>

\* a session that is never cut
truncateHistoryNever(turns) == turns

\* server.js:318-320
truncateHistory(turns) ==
    IF Len(turns) > HistoryLimit THEN sliceLast(turns, HistoryLimit) ELSE turns

\* server.js:306-320: history after the user turn was pushed and the cap applied
pushUserTurn(history, key, userMessage) ==
    Put(history, key,
        truncateHistory(Append(SessionOf(history, key),
                               Turn("user", userMessage))))

\* server.js:327-330
completionMessages(systemPrompt, history, key) ==
    << Turn("system", systemPrompt) >> \o SessionOf(history, key)

\* an append that puts the answer behind the oldest user turn that is
\* followed by a user turn
pushAssistantTurnInArrivalOrder(history, key, assistantMessage) ==
    LET turns == SessionOf(history, key)
        open == { j \in 1..(Len(turns) - 1) :
                    turns[j].role = "user" /\ turns[j + 1].role = "user" }
        i == IF open = {} THEN 0 ELSE CHOOSE j \in open : \A k \in open : j <= k
    IN  IF i = 0
        THEN Put(history, key, Append(turns, Turn("assistant", assistantMessage)))
        ELSE Put(history, key,
                 SubSeq(turns, 1, i) \o << Turn("assistant", assistantMessage) >>
                     \o SubSeq(turns, i + 1, Len(turns)))

\* server.js:345-348
pushAssistantTurn(history, key, assistantMessage) ==
    Put(history, key,
        Append(SessionOf(history, key), Turn("assistant", assistantMessage)))

\* a reset that leaves the session as it is
resetHistoryKeeps(history, key) == history

\* a reset that keeps a last turn that was not answered
resetHistoryKeepsOpenTurn(history, key) ==
    LET turns == SessionOf(history, key)
    IN  IF Len(turns) > 0 /\ turns[Len(turns)].role = "user"
        THEN Put(history, key, << turns[Len(turns)] >>)
        ELSE Put(history, key, <<>>)

\* server.js:447
resetHistory(history, key) == Put(history, key, <<>>)

\* a catch that records an empty assistant turn
historyOnCompletionErrorEmptyTurn(history, key) ==
    pushAssistantTurn(history, key, <<>>)

\* server.js:352-355: the catch of getAIResponse logs and rethrows
historyOnCompletionError(history, key) == history

\* server.js:468, Map.get: length 0 for undefined
getLastResponse(last, key) == IF key \in DOMAIN last THEN <<last[key]>> ELSE <<>>

\* server.js:555
setLastResponse(last, key, aiResponse) == Put(last, key, aiResponse)

----------------------------------------------------------------------------
(* Outbound messages *)

TextMessage(text) == [ type |-> "text", text |-> text ]
AudioMessage(audioId) == [ type |-> "audio", text |-> audioId ]

\* server.js:287: a string becomes one text message
asMessages(text) == << TextMessage(text) >>

\* server.js:541-546: for (let i = from; i < aiResponse.length; i += step)
RECURSIVE splitLoop(_, _, _)
splitLoop(aiResponse, i, step) ==
    IF i < Len(aiResponse)
    THEN << TextMessage(substring(aiResponse, i, i + maxLength)) >>
             \o splitLoop(aiResponse, i + step, step)
    ELSE <<>>

\* a split whose chunks start one character too far apart
splitReplySkipsBoundary(aiResponse) ==
    IF Len(aiResponse) > maxLength
    THEN splitLoop(aiResponse, 0, maxLength + 1)
    ELSE asMessages(aiResponse)

\* server.js:539-551
splitReply(aiResponse) ==
    IF Len(aiResponse) > maxLength
    THEN splitLoop(aiResponse, 0, maxLength)
    ELSE asMessages(aiResponse)

\* server.js:220
ttsInput(text) == substring(text, 0, TtsMaxChars)

\* the audio the synthesis service returns for a text
Synthesized(text) == <<"mp3:">> \o text

\* server.js:251
newAudioId(time, n) == <<"audio_", ToString(time), "_", ToString(n)>>

\* a sweep that also deletes what is exactly five minutes old
storeAudioEvictsAtFive(storage, audioId, buffer, time) ==
    LET stored == Put(storage, audioId, [ buffer |-> buffer, createdAt |-> time ])
        kept == { id \in DOMAIN stored :
                    ~(stored[id].createdAt <= time - AudioTtlMinutes) }
    IN  [ id \in kept |-> stored[id] ]

\* server.js:255-266: set, then delete what is older than five minutes
storeAudio(storage, audioId, buffer, time) ==
    LET stored == Put(storage, audioId, [ buffer |-> buffer, createdAt |-> time ])
        kept == { id \in DOMAIN stored :
                    ~(stored[id].createdAt < time - AudioTtlMinutes) }
    IN  [ id \in kept |-> stored[id] ]

\* a call of an upstream API: the reply, push, completion, synthesis,
\* transcription, download or logging service
Call(api, to, messages) == [ api |-> api, to |-> to, messages |-> messages ]

----------------------------------------------------------------------------
(* Inputs *)

\* the deliveries that may be in progress at once
Tasks == {1, 2}

BotA == <<"a">>
BotUnknown == <<"z">>
SecretA == <<"secA">>
TokenA == <<"tokA">>
PromptA == <<"promptA">>
U1 == <<"U","1">>
U2 == <<"U","2">>

RowA ==
    [ student_name |-> <<"A">>, skill_type |-> <<"S">>,
      channel_access_token |-> TokenA, channel_secret |-> SecretA,
      system_prompt |-> PromptA ]

TextEvent(userId, text) ==
    Token("message", "text", userId, text, <<>>, <<"rt">>)
AudioEvent(userId) ==
    Token("message", "audio", userId, <<>>, <<"m1">>, <<"rt">>)
FollowEvent(userId) == Token("follow", "", userId, <<>>, <<>>, <<"rt">>)
UnfollowEvent(userId) == Token("unfollow", "", userId, <<>>, <<>>, <<>>)

TxtHi == <<"h","i">>
TxtHear == <<"H","e","a","r">>
TxtResetMixed == <<"/","R","e","s","e","t">>

\* what the completion service may answer (the empty text is one answer),
\* and what transcription may hear
AiReplies == { <<"o","k">>, <<>> }
Transcripts == { TxtHi, CmdReset }

\* the request bodies of Spec
Bodies ==
    { << TextEvent(U1, TxtHi) >>,
      << TextEvent(U1, TxtHear) >>,
      << TextEvent(U1, TxtResetMixed) >>,
      << TextEvent(U1, CmdHelp) >>,
      << TextEvent(U1, CmdListen) >>,
      << AudioEvent(U1) >>,
      << FollowEvent(U1), UnfollowEvent(U1) >>,
      << TextEvent(U2, TxtHi), Ws >>,
      << Bad >> }

\* the signatures a request may carry: the digest of its bytes, the digest
\* of its parsed body written again, and one made under another secret
Signatures(raw) ==
    { HmacBase64(SecretA, raw),
      HmacBase64(SecretA, SelectSeq(raw, IsSignificant)),
      HmacBase64(<<"other">>, raw) }

----------------------------------------------------------------------------
(* Tasks *)

\* no audio was fetched yet
NoFetch == [ audioId |-> <<>>, status |-> 0, body |-> <<>>, at |-> 0 ]

\* the registrations that may be in progress at once
Requests == {1, 2}

IdleRequest ==
    [ pc |-> "idle", op |-> "", body |-> <<>>, botId |-> <<>>, status |-> 0,
      thrown |-> "" ]

IdleTask ==
    [ pc |-> "idle", botId |-> <<>>, raw |-> <<>>, signature |-> <<>>,
      botConfig |-> <<>>, events |-> <<>>, idx |-> 0,
      userMessage |-> <<>>, aiResponse |-> <<>>, audioId |-> <<>>,
      out |-> <<>>, outcome |-> "", status |-> 0 ]

Init ==
    /\ bots = [ id \in {BotA} |-> RowA ]
    /\ conversationHistory = <<>>
    /\ lastBotResponse = <<>>
    /\ audioStorage = <<>>
    /\ audioSeq = 0
    /\ now = 0
    /\ ttsKey \in BOOLEAN
    /\ task = [ t \in Tasks |-> IdleTask ]
    /\ running = None
    /\ received = 0
    /\ fetched = NoFetch
    /\ admin = [ r \in Requests |-> IdleRequest ]
    /\ streak = <<>>

Event(t) == task[t].events[task[t].idx]
Config(t) == task[t].botConfig[1]
KeyOf(t) == historyKey(task[t].botId, Event(t).userId)
StreakOf(key) == IF key \in DOMAIN streak THEN streak[key] ELSE 0

\* the pcs at which a task waits for the completion service
CompletionPcs == {"completion", "voice_completion"}

\* another task waits for a completion for the same session
Overlaps(t, key) ==
    \E o \in Tasks \ {t} :
        /\ task[o].pc \in CompletionPcs
        /\ KeyOf(o) = key

AtEvent(t) ==
    /\ running = {t}
    /\ task[t].pc = "loop"
    /\ task[t].idx <= Len(task[t].events)

IsTextEvent(e) == e.type = "message" /\ e.mtype = "text"
IsAudioEvent(e) == e.type = "message" /\ e.mtype = "audio"
IsCommand(text) == toLowerCase(text) \in {CmdReset, CmdHelp, CmdListen}

Shared == <<conversationHistory, lastBotResponse, audioStorage, audioSeq>>
Env == <<bots, now, ttsKey, received, fetched, admin>>

----------------------------------------------------------------------------
(* POST /webhook/:botId up to the event loop *)

\* the task handles no delivery
Free(t) == task[t].pc \in {"idle", "done"}

\* server.js:405-409: a delivery arrives and getBotConfig is awaited
Receive(t, botId, raw, signature) ==
    /\ running = None
    /\ Free(t)
    /\ \A o \in Tasks : Free(o) => t <= o
    /\ task' = [task EXCEPT ![t] =
                  [IdleTask EXCEPT !.pc = "getBotConfig", !.botId = botId,
                                   !.raw = raw, !.signature = signature]]
    /\ received' = received + 1
    /\ UNCHANGED <<Shared, bots, now, ttsKey, fetched, admin, running, streak>>

\* an admission that does not look at the signature
admissionNoSignature(cfg, raw, signature) ==
    IF Len(cfg) = 0 THEN 404
    ELSE IF ~JSONparses(raw) THEN 400
    ELSE 0

\* an admission that parses the body before it looks the tenant up
admissionParsesFirst(cfg, raw, signature) ==
    IF ~JSONparses(raw) THEN 400
    ELSE IF Len(cfg) = 0 THEN 404
    ELSE IF ~verifySignature(JSONparse(raw), signature, cfg[1].channelSecret)
         THEN 401
    ELSE 0

\* server.js:412-431: the status that ends the delivery before its events
\* are looked at, 0 when the events are processed
admission(cfg, raw, signature) ==
    IF Len(cfg) = 0 THEN 404
    ELSE IF ~JSONparses(raw) THEN 400
    ELSE IF ~verifySignature(JSONparse(raw), signature, cfg[1].channelSecret)
         THEN 401
    ELSE 0

\* server.js:412-436: getBotConfig answers (null when the query throws)
LookupDone(t, dbOk) ==
    /\ running = None
    /\ task[t].pc = "getBotConfig"
    /\ LET cfg == IF dbOk THEN getBotConfig(bots, task[t].botId) ELSE <<>>
           st == admission(cfg, task[t].raw, task[t].signature)
       IN  IF st # 0
           THEN /\ task' = [task EXCEPT ![t].pc = "done", ![t].status = st,
                                        ![t].botConfig = cfg]
                /\ running' = None
           ELSE /\ task' = [task EXCEPT ![t].pc = "loop",
                                        ![t].botConfig = cfg,
                                        ![t].events = JSONparse(task[t].raw).events,
                                        ![t].idx = 1]
                /\ running' = {t}
    /\ UNCHANGED <<Shared, Env, streak>>

\* an answer that does not wait for the end of the loop
Respond200Early(t) ==
    /\ running = {t}
    /\ task[t].pc = "loop"
    /\ task' = [task EXCEPT ![t] =
                  [IdleTask EXCEPT !.pc = "done", !.status = 200]]
    /\ running' = None
    /\ UNCHANGED <<Shared, Env, streak>>

\* server.js:436, 691: the loop is over
Respond200(t) ==
    /\ running = {t}
    /\ task[t].pc = "loop"
    /\ task[t].idx > Len(task[t].events)
    /\ task' = [task EXCEPT ![t] =
                  [IdleTask EXCEPT !.pc = "done", !.status = 200]]
    /\ running' = None
    /\ UNCHANGED <<Shared, Env, streak>>

\* the task starts the handling of its event with a first awaited call
Begin(t, pc, text, call) ==
    /\ task' = [task EXCEPT ![t].pc = pc, ![t].userMessage = text,
                            ![t].aiResponse = <<>>, ![t].audioId = <<>>,
                            ![t].out = <<call>>,
                            ![t].outcome = ""]
    /\ running' = None

\* the task makes its next awaited call; ok is the result of the call it
\* has waited for, which the code drops where both results go on alike
Continue(t, pc, ok, call) ==
    /\ task' = [task EXCEPT ![t].pc = pc, ![t].out = Append(@, call)]
    /\ running' = None

\* a loop that a failed call ends with an error status
NextEventStopsOnFailure(t, ok, outcome) ==
    IF ok
    THEN /\ task' = [task EXCEPT ![t].pc = "loop", ![t].idx = @ + 1,
                                 ![t].outcome = outcome]
         /\ running' = {t}
    ELSE /\ task' = [task EXCEPT ![t].pc = "done", ![t].status = 500,
                                 ![t].outcome = outcome]
         /\ running' = None

\* the handling of the event is over; the loop goes on with the next event
NextEvent(t, ok, outcome) ==
    /\ task' = [task EXCEPT ![t].pc = "loop", ![t].idx = @ + 1,
                            ![t].outcome = outcome]
    /\ running' = {t}

Reply(t, text) == Call("reply", Event(t).replyToken, asMessages(text))
ReplyMessages(t, messages) == Call("reply", Event(t).replyToken, messages)
Push(t, messages) == Call("push", Event(t).userId, messages)

\* server.js:130-152
Log(t, messageType, userMessage, botResponse) ==
    Call("log", Event(t).userId,
         << [type |-> messageType, text |-> userMessage],
            [type |-> "bot_output", text |-> botResponse] >>)

----------------------------------------------------------------------------
(* Commands, server.js:444-517 *)

\* a /reset that also forgets the last response of the caller
HandleResetForgetsLast(t) ==
    /\ AtEvent(t)
    /\ IsTextEvent(Event(t))
    /\ toLowerCase(Event(t).text) = CmdReset
    /\ conversationHistory' = resetHistory(conversationHistory, KeyOf(t))
    /\ lastBotResponse' =
           [ key \in DOMAIN lastBotResponse \ {KeyOf(t)} |-> lastBotResponse[key] ]
    /\ streak' = Put(streak, KeyOf(t),
                     IF Overlaps(t, KeyOf(t)) THEN Broken ELSE 0)
    /\ Begin(t, "reset_reply", Event(t).text, Reply(t, MsgReset))
    /\ UNCHANGED <<audioStorage, audioSeq, Env>>

\* server.js:445-454
HandleReset(t) ==
    /\ AtEvent(t)
    /\ IsTextEvent(Event(t))
    /\ toLowerCase(Event(t).text) = CmdReset
    /\ conversationHistory' = resetHistory(conversationHistory, KeyOf(t))
    /\ streak' = Put(streak, KeyOf(t),
                     IF Overlaps(t, KeyOf(t)) THEN Broken ELSE 0)
    /\ Begin(t, "reset_reply", Event(t).text, Reply(t, MsgReset))
    /\ UNCHANGED <<lastBotResponse, audioStorage, audioSeq, Env>>

\* server.js:456-463
HandleHelp(t) ==
    /\ AtEvent(t)
    /\ IsTextEvent(Event(t))
    /\ toLowerCase(Event(t).text) = CmdHelp
    /\ Begin(t, "help_reply", Event(t).text, Reply(t, MsgHelp(Config(t))))
    /\ UNCHANGED <<Shared, Env, streak>>

\* a test that takes only undefined for no last response
noLastResponseUndefinedOnly(last) == Len(last) = 0

\* server.js:470: !lastResponse, true of undefined and of the empty string
noLastResponse(last) == Len(last) = 0 \/ Len(last[1]) = 0

\* server.js:481, 220-225: the synthesis request
Tts(text) == Call("tts", <<>>, asMessages(ttsInput(text)))

\* server.js:466-481
HandleListen(t) ==
    /\ AtEvent(t)
    /\ IsTextEvent(Event(t))
    /\ toLowerCase(Event(t).text) = CmdListen
    /\ LET last == getLastResponse(lastBotResponse, KeyOf(t))
       IN  IF noLastResponse(last)
           THEN Begin(t, "nolast_reply", Event(t).text,
                      Reply(t, MsgNothingToPlay))
           ELSE /\ task' = [task EXCEPT ![t].pc = "listen_tts",
                                        ![t].userMessage = Event(t).text,
                                        ![t].aiResponse = last[1],
                                        ![t].audioId = <<>>,
                                        ![t].out = << Tts(last[1]) >>,
                                        ![t].outcome = ""]
                /\ running' = None
    /\ UNCHANGED <<Shared, Env, streak>>

\* server.js:482-505 and 508-515: textToSpeech returned or threw
ListenTtsDone(t, ok) ==
    /\ running = None
    /\ task[t].pc = "listen_tts"
    /\ IF ok
       THEN LET audioId == newAudioId(now, audioSeq)
            IN  /\ audioStorage' =
                       storeAudio(audioStorage, audioId,
                                  Synthesized(ttsInput(task[t].aiResponse)), now)
                /\ audioSeq' = audioSeq + 1
                /\ task' = [task EXCEPT
                              ![t].pc = "listen_reply",
                              ![t].audioId = audioId,
                              ![t].out = Append(@, ReplyMessages(t,
                                             << AudioMessage(audioId) >>))]
                /\ running' = None
       ELSE /\ Continue(t, "listen_err_reply", FALSE, Reply(t, MsgNoAudio))
            /\ UNCHANGED <<audioStorage, audioSeq>>
    /\ UNCHANGED <<conversationHistory, lastBotResponse, Env, streak>>

\* server.js:489-516: the reply with the audio message returned or threw
ListenReplyDone(t, ok) ==
    /\ running = None
    /\ task[t].pc = "listen_reply"
    /\ IF ok
       THEN NextEvent(t, TRUE, "listen_ok")
       ELSE Continue(t, "listen_err_reply", FALSE, Reply(t, MsgNoAudio))
    /\ UNCHANGED <<Shared, Env, streak>>

\* server.js:680-688
HandleFollow(t) ==
    /\ AtEvent(t)
    /\ Event(t).type = "follow"
    /\ Begin(t, "follow_reply", <<>>, Reply(t, MsgWelcome(Config(t))))
    /\ UNCHANGED <<Shared, Env, streak>>

\* server.js:437, 611, 681: an event of no handled kind
SkipEvent(t) ==
    /\ AtEvent(t)
    /\ ~IsTextEvent(Event(t))
    /\ ~IsAudioEvent(Event(t))
    /\ Event(t).type # "follow"
    /\ task' = [task EXCEPT ![t].idx = @ + 1, ![t].out = <<>>,
                            ![t].outcome = "ignored"]
    /\ UNCHANGED <<Shared, Env, running, streak>>

\* the pcs at which replyToLine is awaited and the event ends after it
ReplyOutcome ==
    [ reset_reply |-> "reset", help_reply |-> "help",
      nolast_reply |-> "listen_none", listen_err_reply |-> "listen_failed",
      err_reply |-> "text_failed", follow_reply |-> "follow" ]

\* server.js:280-301: replyToLine returns true or false and never throws
ReplyDone(t, ok) ==
    /\ running = None
    /\ task[t].pc \in DOMAIN ReplyOutcome
    /\ NextEvent(t, ok, ReplyOutcome[task[t].pc])
    /\ UNCHANGED <<Shared, Env, streak>>

----------------------------------------------------------------------------
(* Free-form text, server.js:519-607, and getAIResponse, server.js:304-356 *)

Completion(systemPrompt, history, key) ==
    Call("completion", <<>>, completionMessages(systemPrompt, history, key))

\* the results of an upstream call that returns a text: <<>> when it throws
Results(texts) == { <<>> } \cup { <<x>> : x \in texts }

\* the streak of a session when a completion for it starts
StreakAtStart(t, key) ==
    IF Overlaps(t, key) THEN Put(streak, key, Broken) ELSE streak

\* the streak of a session when a completion for it ends
StreakAtEnd(key, ok) ==
    IF ok /\ StreakOf(key) # Broken
    THEN Put(streak, key, StreakOf(key) + 1)
    ELSE Put(streak, key, Broken)

\* server.js:521-526, 306-340: the user turn is pushed, the completion awaited
HandleText(t) ==
    /\ AtEvent(t)
    /\ IsTextEvent(Event(t))
    /\ ~IsCommand(Event(t).text)
    /\ conversationHistory' =
           pushUserTurn(conversationHistory, KeyOf(t), Event(t).text)
    /\ streak' = StreakAtStart(t, KeyOf(t))
    /\ Begin(t, "completion", Event(t).text,
             Completion(Config(t).systemPrompt, conversationHistory', KeyOf(t)))
    /\ UNCHANGED <<lastBotResponse, audioStorage, audioSeq, Env>>

\* a catch that sends the retry-later text twice
textErrorCallsTwice(t) == << Reply(t, MsgRetryLater), Reply(t, MsgRetryLater) >>

\* server.js:600-607: what the catch of the text branch sends
textErrorCalls(t) == << Reply(t, MsgRetryLater) >>

\* server.js:342-350 and 528-551, or 352-355 and 600-607
CompletionDone(t, res) ==
    /\ running = None
    /\ task[t].pc = "completion"
    /\ IF Len(res) = 1
       THEN /\ conversationHistory' =
                   pushAssistantTurn(conversationHistory, KeyOf(t), res[1])
            /\ task' = [task EXCEPT
                          ![t].pc = "text_reply",
                          ![t].aiResponse = res[1],
                          ![t].out = Append(@, ReplyMessages(t,
                                                   splitReply(res[1])))]
       ELSE /\ conversationHistory' =
                   historyOnCompletionError(conversationHistory, KeyOf(t))
            /\ task' = [task EXCEPT
                          ![t].pc = "err_reply",
                          ![t].out = @ \o textErrorCalls(t)]
    /\ running' = None
    /\ streak' = StreakAtEnd(KeyOf(t), Len(res) = 1)
    /\ UNCHANGED <<lastBotResponse, audioStorage, audioSeq, Env>>

\* server.js:553-555: the last response after the text reply was sent
lastAfterTextReply(last, key, aiResponse) ==
    setLastResponse(last, key, aiResponse)

\* server.js:553-563 or 596: replyToLine returned
TextReplyDone(t, ok) ==
    /\ running = None
    /\ task[t].pc = "text_reply"
    /\ lastBotResponse' =
           lastAfterTextReply(lastBotResponse, KeyOf(t), task[t].aiResponse)
    /\ IF wantsAudio(task[t].userMessage) /\ ttsKey
       THEN Continue(t, "auto_tts", ok, Tts(task[t].aiResponse))
       ELSE Continue(t, "log", ok,
                     Log(t, "text", task[t].userMessage, task[t].aiResponse))
    /\ UNCHANGED <<conversationHistory, audioStorage, audioSeq, Env, streak>>

\* a catch of the auto speech that sends the retry-later text
autoSpeechErrorCallsFallback(t) ==
    << Reply(t, MsgRetryLater),
       Log(t, "text", task[t].userMessage, task[t].aiResponse) >>

\* server.js:589-596: the catch of the auto speech logs to the console, and
\* the turn goes on with logConversation
autoSpeechErrorCalls(t) ==
    << Log(t, "text", task[t].userMessage, task[t].aiResponse) >>

\* server.js:563-587 or 589-596: textToSpeech returned or threw
AutoTtsDone(t, ok) ==
    /\ running = None
    /\ task[t].pc = "auto_tts"
    /\ IF ok
       THEN LET audioId == newAudioId(now, audioSeq)
            IN  /\ audioStorage' =
                       storeAudio(audioStorage, audioId,
                                  Synthesized(ttsInput(task[t].aiResponse)), now)
                /\ audioSeq' = audioSeq + 1
                /\ task' = [task EXCEPT
                              ![t].pc = "auto_push",
                              ![t].audioId = audioId,
                              ![t].out = Append(@, Push(t,
                                             << AudioMessage(audioId) >>))]
                /\ running' = None
       ELSE /\ task' = [task EXCEPT ![t].pc = "log",
                                        ![t].out = @ \o autoSpeechErrorCalls(t)]
            /\ running' = None
            /\ UNCHANGED <<audioStorage, audioSeq>>
    /\ UNCHANGED <<conversationHistory, lastBotResponse, Env, streak>>

\* server.js:571-596: the push of the audio message returned or threw
AutoPushDone(t, ok) ==
    /\ running = None
    /\ task[t].pc = "auto_push"
    /\ IF ok
       THEN Continue(t, "log", TRUE,
                     Log(t, "text", task[t].userMessage, task[t].aiResponse))
       ELSE /\ task' = [task EXCEPT ![t].pc = "log",
                                        ![t].out = @ \o autoSpeechErrorCalls(t)]
            /\ running' = None
    /\ UNCHANGED <<Shared, Env, streak>>

\* server.js:596-598, 149-158: logConversation never throws
LogDone(t, ok) ==
    /\ running = None
    /\ task[t].pc = "log"
    /\ NextEvent(t, ok, "text_ok")
    /\ UNCHANGED <<Shared, Env, streak>>

----------------------------------------------------------------------------
(* Voice messages, server.js:611-678 *)

\* a catch that answers with the reply token
VoiceRetryByReply(t) == Reply(t, MsgVoiceRetry)

\* server.js:657-673: what the catch of the audio branch sends
VoiceRetry(t) == Push(t, asMessages(MsgVoiceRetry))

\* server.js:611-620
HandleAudio(t) ==
    /\ AtEvent(t)
    /\ IsAudioEvent(Event(t))
    /\ Begin(t, "download", <<>>,
             Call("download", Config(t).channelAccessToken,
                  asMessages(Event(t).id)))
    /\ UNCHANGED <<Shared, Env, streak>>

\* server.js:620-624 or 654-673: downloadAudioFromLine returned or threw
DownloadDone(t, ok) ==
    /\ running = None
    /\ task[t].pc = "download"
    /\ IF ok
       THEN Continue(t, "transcribe", TRUE,
                     Call("stt", <<>>, asMessages(Event(t).id)))
       ELSE Continue(t, "voice_push", FALSE, VoiceRetry(t))
    /\ UNCHANGED <<Shared, Env, streak>>

\* a feedback call that marks the transcript as a voice message
speakingFeedbackUserTurnTagged(history, key, transcribedText) ==
    pushUserTurn(history, key, <<"[Voice Message] ">> \o transcribedText)

\* server.js:209-214, 306-320: getSpeakingFeedback hands the transcript to
\* getAIResponse as the user message
speakingFeedbackUserTurn(history, key, transcribedText) ==
    pushUserTurn(history, key, transcribedText)

\* server.js:624-633, 209-214, 306-340, or 654-673
TranscribeDone(t, res) ==
    /\ running = None
    /\ task[t].pc = "transcribe"
    /\ IF Len(res) = 1
       THEN /\ conversationHistory' =
                   speakingFeedbackUserTurn(conversationHistory, KeyOf(t),
                                            res[1])
            /\ streak' = StreakAtStart(t, KeyOf(t))
            /\ task' = [task EXCEPT
                          ![t].pc = "voice_completion",
                          ![t].userMessage = res[1],
                          ![t].out = Append(@,
                              Completion(Config(t).systemPrompt,
                                         conversationHistory', KeyOf(t)))]
            /\ running' = None
       ELSE /\ Continue(t, "voice_push", FALSE, VoiceRetry(t))
            /\ UNCHANGED <<conversationHistory, streak>>
    /\ UNCHANGED <<lastBotResponse, audioStorage, audioSeq, Env>>

\* server.js:611-652: the last response after a voice turn
lastAfterVoiceTurn(last, key, feedback) == last

\* server.js:342-350 and 636-640, or 352-355 and 654-673
VoiceCompletionDone(t, res) ==
    /\ running = None
    /\ task[t].pc = "voice_completion"
    /\ IF Len(res) = 1
       THEN /\ conversationHistory' =
                   pushAssistantTurn(conversationHistory, KeyOf(t), res[1])
            /\ lastBotResponse' =
                   lastAfterVoiceTurn(lastBotResponse, KeyOf(t), res[1])
            /\ task' = [task EXCEPT
                          ![t].pc = "voice_reply",
                          ![t].aiResponse = res[1],
                          ![t].out = Append(@, Reply(t,
                              VoiceReplyText(task[t].userMessage, res[1])))]
            /\ running' = None
       ELSE /\ conversationHistory' =
                   historyOnCompletionError(conversationHistory, KeyOf(t))
            /\ Continue(t, "voice_push", FALSE, VoiceRetry(t))
            /\ UNCHANGED lastBotResponse
    /\ streak' = StreakAtEnd(KeyOf(t), Len(res) = 1)
    /\ UNCHANGED <<audioStorage, audioSeq, Env>>

\* server.js:636-650: replyToLine returned
VoiceReplyDone(t, ok) ==
    /\ running = None
    /\ task[t].pc = "voice_reply"
    /\ Continue(t, "voice_log", ok,
                Log(t, "audio",
                    <<"[Voice Message] ">> \o task[t].userMessage,
                    task[t].aiResponse))
    /\ UNCHANGED <<Shared, Env, streak>>

\* server.js:643-652
VoiceLogDone(t, ok) ==
    /\ running = None
    /\ task[t].pc = "voice_log"
    /\ NextEvent(t, ok, "voice_ok")
    /\ UNCHANGED <<Shared, Env, streak>>

\* server.js:657-677: the push returned or threw; the catch swallows it
VoicePushDone(t, ok) ==
    /\ running = None
    /\ task[t].pc = "voice_push"
    /\ NextEvent(t, ok, "voice_failed")
    /\ UNCHANGED <<Shared, Env, streak>>

----------------------------------------------------------------------------
(* Time, and GET /audio/:audioId, server.js:363-378 *)

\* a minute passes while no task holds control
Tick(limit) ==
    /\ running = None
    /\ now < limit
    /\ now' = now + 1
    /\ UNCHANGED <<Shared, bots, ttsKey, received, fetched, admin, task,
                   running, streak>>

Mp3 == <<".mp3">>

\* server.js:365: req.params.audioId.replace(/\.mp3$/, '')
stripMp3(param) ==
    IF Len(param) > 0 /\ param[Len(param)] = Mp3[1]
    THEN SubSeq(param, 1, Len(param) - 1)
    ELSE param

\* server.js:366-377: 404 when the map holds no entry, else the buffer
audioResponse(storage, audioId) ==
    IF audioId \in DOMAIN storage
    THEN [ status |-> 200, body |-> storage[audioId].buffer ]
    ELSE [ status |-> 404, body |-> <<>> ]

\* server.js:363-378
GetAudio(param) ==
    /\ running = None
    /\ LET audioId == stripMp3(param)
           res == audioResponse(audioStorage, audioId)
       IN  fetched' = [ audioId |-> audioId, status |-> res.status,
                        body |-> res.body, at |-> now ]
    /\ UNCHANGED <<Shared, bots, now, ttsKey, received, admin, task, running,
                   streak>>

----------------------------------------------------------------------------
(* POST /api/register, server.js:725-772 *)

Digits == <<"0","1","2","3","4","5","6","7","8","9">>

IsLowerOrDigit(c) ==
    \/ \E i \in 1..26 : Lower[i] = c
    \/ \E i \in 1..10 : Digits[i] = c

\* a derivation that does not lower-case the name
deriveBotIdKeepsCase(studentName) ==
    [ i \in 1..Len(studentName) |->
        IF IsLowerOrDigit(studentName[i]) THEN studentName[i] ELSE "_" ]

\* server.js:740: studentName.toLowerCase().replace(/[^a-z0-9]/g, '_')
deriveBotId(studentName) ==
    LET lowered == toLowerCase(studentName)
    IN  [ i \in 1..Len(lowered) |->
            IF IsLowerOrDigit(lowered[i]) THEN lowered[i] ELSE "_" ]

\* server.js:735: a field that is undefined or the empty string is falsy
missingFields(body) ==
    \/ body.studentName = <<>>
    \/ body.skillType = <<>>
    \/ body.channelAccessToken = <<>>
    \/ body.channelSecret = <<>>
    \/ body.systemPrompt = <<>>

\* server.js:752-756: the row of the INSERT
rowOf(body) ==
    [ student_name |-> body.studentName, skill_type |-> body.skillType,
      channel_access_token |-> body.channelAccessToken,
      channel_secret |-> body.channelSecret,
      system_prompt |-> body.systemPrompt ]

\* the request is answered
Answer(r, status, thrown) ==
    admin' = [admin EXCEPT ![r].pc = "done", ![r].status = status,
                           ![r].thrown = thrown]

\* server.js:725-744: the fields are tested, the id derived, the SELECT sent
Register(r, body) ==
    /\ running = None
    /\ admin[r].pc \in {"idle", "done"}
    /\ \A o \in Requests : admin[o].pc \in {"idle", "done"} => r <= o
    /\ IF missingFields(body)
       THEN admin' = [admin EXCEPT ![r] =
                        [IdleRequest EXCEPT !.pc = "done", !.op = "register",
                                            !.body = body, !.status = 400]]
       ELSE admin' = [admin EXCEPT ![r] =
                        [IdleRequest EXCEPT !.pc = "select", !.op = "register",
                                            !.body = body,
                                            !.botId = deriveBotId(body.studentName)]]
    /\ received' = received + 1
    /\ UNCHANGED <<Shared, bots, now, ttsKey, fetched, task, running, streak>>

\* a check that takes every identifier for a new one
selectExistingNone(table, botId) == FALSE

\* server.js:744: SELECT id FROM bots WHERE id = $1 has a row
selectExisting(table, botId) == botId \in DOMAIN table

\* server.js:744-757 or 768-771: the SELECT answered or threw
RegisterSelectDone(r, dbOk) ==
    /\ running = None
    /\ admin[r].pc = "select"
    /\ IF ~dbOk THEN Answer(r, 500, "query_failed")
       ELSE IF selectExisting(bots, admin[r].botId) THEN Answer(r, 409, "")
       ELSE admin' = [admin EXCEPT ![r].pc = "insert"]
    /\ UNCHANGED <<Shared, bots, now, ttsKey, received, fetched, task, running,
                   streak>>

\* server.js:752-767 or 768-771: the INSERT answered or threw; id is the
\* primary key of the table (server.js:59), so a second row under one id is
\* refused and the query throws
RegisterInsertDone(r, dbOk) ==
    /\ running = None
    /\ admin[r].pc = "insert"
    /\ IF ~dbOk
       THEN Answer(r, 500, "query_failed") /\ UNCHANGED bots
       ELSE IF admin[r].botId \in DOMAIN bots
       THEN Answer(r, 500, "unique_violation") /\ UNCHANGED bots
       ELSE /\ bots' = Put(bots, admin[r].botId, rowOf(admin[r].body))
            /\ Answer(r, 200, "")
    /\ UNCHANGED <<Shared, now, ttsKey, received, fetched, task, running, streak>>

----------------------------------------------------------------------------
(* DELETE /api/bots/:botId, server.js:802-817 *)

\* server.js:802-806: the id is read from the path and the DELETE sent; no
\* header of the request is read
DeleteBot(r, botId, credential) ==
    /\ running = None
    /\ admin[r].pc \in {"idle", "done"}
    /\ \A o \in Requests : admin[o].pc \in {"idle", "done"} => r <= o
    /\ admin' = [admin EXCEPT ![r] =
                   [IdleRequest EXCEPT !.pc = "delete", !.op = "delete",
                                       !.body = [ credential |-> credential ],
                                       !.botId = botId]]
    /\ received' = received + 1
    /\ UNCHANGED <<Shared, bots, now, ttsKey, fetched, task, running, streak>>

\* server.js:806: DELETE FROM bots WHERE id = $1 RETURNING id
deleteRow(table, botId) == [ id \in DOMAIN table \ {botId} |-> table[id] ]

\* a removal that also drops the sessions and the last responses
DeleteDoneDropsSessions(r, dbOk) ==
    /\ running = None
    /\ admin[r].pc = "delete"
    /\ IF ~dbOk
       THEN Answer(r, 500, "query_failed")
            /\ UNCHANGED <<bots, conversationHistory, lastBotResponse>>
       ELSE IF admin[r].botId \notin DOMAIN bots
       THEN Answer(r, 404, "")
            /\ UNCHANGED <<bots, conversationHistory, lastBotResponse>>
       ELSE /\ bots' = deleteRow(bots, admin[r].botId)
            /\ conversationHistory' = <<>>
            /\ lastBotResponse' = <<>>
            /\ Answer(r, 200, "")
    /\ UNCHANGED <<audioStorage, audioSeq, now, ttsKey, received, fetched, task,
                   running, streak>>

\* server.js:806-816: the DELETE answered or threw
DeleteDone(r, dbOk) ==
    /\ running = None
    /\ admin[r].pc = "delete"
    /\ IF ~dbOk
       THEN Answer(r, 500, "query_failed") /\ UNCHANGED bots
       ELSE IF admin[r].botId \notin DOMAIN bots
       THEN Answer(r, 404, "") /\ UNCHANGED bots
       ELSE /\ bots' = deleteRow(bots, admin[r].botId)
            /\ Answer(r, 200, "")
    /\ UNCHANGED <<Shared, now, ttsKey, received, fetched, task, running, streak>>

----------------------------------------------------------------------------
(* PUT /api/bots/:botId, server.js:775-799 *)

\* server.js:775-781: the id and the new prompt are read, the SELECT sent
UpdateBot(r, botId, systemPrompt) ==
    /\ running = None
    /\ admin[r].pc \in {"idle", "done"}
    /\ \A o \in Requests : admin[o].pc \in {"idle", "done"} => r <= o
    /\ admin' = [admin EXCEPT ![r] =
                   [IdleRequest EXCEPT !.pc = "update_select", !.op = "update",
                                       !.body = [ systemPrompt |-> systemPrompt ],
                                       !.botId = botId]]
    /\ received' = received + 1
    /\ UNCHANGED <<Shared, bots, now, ttsKey, fetched, task, running, streak>>

\* server.js:781-795 or 796-798: the SELECT answered or threw; an empty
\* prompt is falsy and sends no UPDATE
UpdateSelectDone(r, dbOk) ==
    /\ running = None
    /\ admin[r].pc = "update_select"
    /\ IF ~dbOk
       THEN Answer(r, 500, "query_failed")
       ELSE IF ~selectExisting(bots, admin[r].botId)
       THEN Answer(r, 404, "")
       ELSE IF Len(admin[r].body.systemPrompt) = 0
       THEN Answer(r, 200, "")
       ELSE admin' = [admin EXCEPT ![r].pc = "update"]
    /\ UNCHANGED <<Shared, bots, now, ttsKey, received, fetched, task, running,
                   streak>>

\* server.js:788-791: UPDATE bots SET system_prompt = $1 WHERE id = $2
updateRow(table, botId, systemPrompt) ==
    [ id \in DOMAIN table |->
        IF id = botId
        THEN [ table[id] EXCEPT !.system_prompt = systemPrompt ]
        ELSE table[id] ]

\* server.js:788-798: the UPDATE answered or threw
UpdateDone(r, dbOk) ==
    /\ running = None
    /\ admin[r].pc = "update"
    /\ IF ~dbOk
       THEN Answer(r, 500, "query_failed") /\ UNCHANGED bots
       ELSE /\ bots' = updateRow(bots, admin[r].botId, admin[r].body.systemPrompt)
            /\ Answer(r, 200, "")
    /\ UNCHANGED <<Shared, now, ttsKey, received, fetched, task, running, streak>>

----------------------------------------------------------------------------
(* Specifications *)

\* the steps of a task after its delivery was received
Handle(t) ==
    \/ \E dbOk \in BOOLEAN : LookupDone(t, dbOk)
    \/ Respond200(t)
    \/ HandleReset(t)
    \/ HandleHelp(t)
    \/ HandleListen(t)
    \/ HandleFollow(t)
    \/ SkipEvent(t)
    \/ HandleText(t)
    \/ HandleAudio(t)
    \/ \E ok \in BOOLEAN :
          \/ ReplyDone(t, ok)
          \/ ListenTtsDone(t, ok)
          \/ ListenReplyDone(t, ok)
          \/ TextReplyDone(t, ok)
          \/ AutoTtsDone(t, ok)
          \/ AutoPushDone(t, ok)
          \/ LogDone(t, ok)
          \/ DownloadDone(t, ok)
          \/ VoiceReplyDone(t, ok)
          \/ VoiceLogDone(t, ok)
          \/ VoicePushDone(t, ok)
    \/ \E res \in Results(AiReplies) :
          \/ CompletionDone(t, res)
          \/ VoiceCompletionDone(t, res)
    \/ \E res \in Results(Transcripts) : TranscribeDone(t, res)

Next ==
    \/ \E t \in Tasks, botId \in {BotA, BotUnknown}, raw \in Bodies :
          \E signature \in Signatures(raw) :
             /\ received < MaxDeliveries
             /\ Receive(t, botId, raw, signature)
    \/ \E t \in Tasks : Handle(t)

Spec == Init /\ [][Next]_vars

\* the request bodies of SpecCap: one free-form text of one caller, or one
\* voice message of that caller
CapBody == << TextEvent(U1, TxtHi) >>
CapVoiceBody == << AudioEvent(U1) >>

InitCap == Init /\ ttsKey = FALSE

\* one caller sends free-form texts and voice messages one after the
\* other; a completion may fail
NextCap ==
    \/ /\ received < MaxCapDeliveries
       /\ Receive(1, BotA, CapBody, HmacBase64(SecretA, CapBody))
    \/ /\ received < MaxCapDeliveries
       /\ Receive(1, BotA, CapVoiceBody, HmacBase64(SecretA, CapVoiceBody))
    \/ HandleAudio(1)
    \/ DownloadDone(1, TRUE)
    \/ TranscribeDone(1, << TxtHi >>)
    \/ \E res \in Results({ <<"o","k">> }) : VoiceCompletionDone(1, res)
    \/ \E ok \in BOOLEAN : VoiceReplyDone(1, ok)
    \/ \E ok \in BOOLEAN : VoiceLogDone(1, ok)
    \/ \E ok \in BOOLEAN : VoicePushDone(1, ok)
    \/ LookupDone(1, TRUE)
    \/ HandleText(1)
    \/ \E res \in Results({ <<"o","k">> }) : CompletionDone(1, res)
    \/ \E ok \in BOOLEAN : TextReplyDone(1, ok)
    \/ \E ok \in BOOLEAN : LogDone(1, ok)
    \/ \E ok \in BOOLEAN : ReplyDone(1, ok)
    \/ Respond200(1)

SpecCap == InitCap /\ [][NextCap]_vars

\* the request body of SpecAudio: a text that asks for speech
AudioBody == << TextEvent(U1, TxtHear) >>

InitAudio == Init /\ ttsKey = TRUE

\* the identifiers a fetch may name: those of the stored blobs, with and
\* without the extension, and the first one drawn
FetchParams ==
    LET ids == DOMAIN audioStorage \cup { newAudioId(0, 0) }
    IN  ids \cup { id \o Mp3 : id \in ids }

\* one caller asks for speech now and then, time passes, blobs are fetched
NextAudio ==
    \/ /\ received < MaxAudioDeliveries
       /\ Receive(1, BotA, AudioBody, HmacBase64(SecretA, AudioBody))
    \/ LookupDone(1, TRUE)
    \/ HandleText(1)
    \/ \E res \in Results({ <<"o","k">> }) : CompletionDone(1, res)
    \/ \E ok \in BOOLEAN : TextReplyDone(1, ok)
    \/ \E ok \in BOOLEAN : AutoTtsDone(1, ok)
    \/ \E ok \in BOOLEAN : AutoPushDone(1, ok)
    \/ \E ok \in BOOLEAN : LogDone(1, ok)
    \/ \E ok \in BOOLEAN : ReplyDone(1, ok)
    \/ Respond200(1)
    \/ Tick(MaxTime)
    \/ \E param \in FetchParams : GetAudio(param)

SpecAudio == InitAudio /\ [][NextAudio]_vars

\* the request bodies of SpecBatch: two events each
BatchBodies ==
    { << TextEvent(U1, TxtHear), TextEvent(U1, CmdListen) >>,
      << AudioEvent(U1), TextEvent(U1, TxtResetMixed) >>,
      << TextEvent(U1, CmdHelp), FollowEvent(U1) >>,
      << UnfollowEvent(U1), TextEvent(U1, TxtHi) >> }

\* deliveries of two events, handled one delivery after the other
NextBatch ==
    \/ \E raw \in BatchBodies :
          /\ received < MaxBatchDeliveries
          /\ Receive(1, BotA, raw, HmacBase64(SecretA, raw))
    \/ Handle(1)

SpecBatch == Init /\ [][NextBatch]_vars

\* the same, where every awaited call returns or fails and the handler
\* runs on when it can
SpecBatchFair == SpecBatch /\ WF_vars(Handle(1))

\* a text of n code units, each named by its position
LongText(n) == [ i \in 1..n |-> ToString(i) ]

\* the lengths of the answers of the completion service in SpecSplit
SplitLengths ==
    { 1, maxLength, maxLength + 1, 2 * maxLength, 2 * maxLength + 1 }

SplitReplies == { LongText(n) : n \in SplitLengths }

\* the request bodies of SpecSplit: a typed turn and a voice turn
SplitBodies == { << TextEvent(U1, TxtHi) >>, << AudioEvent(U1) >> }

InitSplit == Init /\ ttsKey = FALSE

\* typed and voice turns that are answered with long texts
NextSplit ==
    \/ \E raw \in SplitBodies :
          /\ received < MaxSplitDeliveries
          /\ Receive(1, BotA, raw, HmacBase64(SecretA, raw))
    \/ LookupDone(1, TRUE)
    \/ HandleText(1)
    \/ HandleAudio(1)
    \/ \E res \in Results(SplitReplies) :
          \/ CompletionDone(1, res)
          \/ VoiceCompletionDone(1, res)
    \/ \E res \in Results({ TxtHi }) : TranscribeDone(1, res)
    \/ \E ok \in BOOLEAN :
          \/ TextReplyDone(1, ok)
          \/ LogDone(1, ok)
          \/ ReplyDone(1, ok)
          \/ DownloadDone(1, ok)
          \/ VoiceReplyDone(1, ok)
          \/ VoiceLogDone(1, ok)
          \/ VoicePushDone(1, ok)
    \/ Respond200(1)

SpecSplit == InitSplit /\ [][NextSplit]_vars

\* the registration bodies of request r: a name that derives the id of the
\* tenant of Init, a name with capitals, a blank and marks, a name whose
\* lower-case form is longer, two names that derive one new id, a body
\* with no name and a body with no prompt
RegBody(studentName, r, systemPrompt) ==
    [ studentName |-> studentName, skillType |-> <<"S">>,
      channelAccessToken |-> <<"tok", ToString(r)>>,
      channelSecret |-> <<"sec", ToString(r)>>,
      systemPrompt |-> systemPrompt ]

NameJohnDoe == <<"J","o","h","n"," ","D","o","e","!","!">>
NameDottedI == <<"U+0130">>

RegBodies(r) ==
    { RegBody(<<"A">>, r, <<"prompt", ToString(r)>>),
      RegBody(NameJohnDoe, r, <<"prompt", ToString(r)>>),
      RegBody(NameDottedI, r, <<"prompt", ToString(r)>>),
      RegBody(<<"B"," ","1">>, r, <<"prompt", ToString(r)>>),
      RegBody(<<"b","_","1">>, r, <<"prompt", ToString(r)>>),
      RegBody(<<>>, r, <<"prompt", ToString(r)>>),
      RegBody(<<"C">>, r, <<>>) }

\* registrations, two of which may be in progress at once
NextRegistry ==
    \/ \E r \in Requests : \E body \in RegBodies(r) :
          /\ received < MaxRegistrations
          /\ Register(r, body)
    \/ \E r \in Requests, dbOk \in BOOLEAN : RegisterSelectDone(r, dbOk)
    \/ \E r \in Requests, dbOk \in BOOLEAN : RegisterInsertDone(r, dbOk)

SpecRegistry == Init /\ [][NextRegistry]_vars

\* what a request may carry as its admin credential: the operator's, or none
AdminCredential == <<"admin-credential">>
Credentials == { AdminCredential, <<>> }

\* registrations and removals, two of which may be in progress at once
NextAdmin ==
    \/ \E r \in Requests : \E body \in RegBodies(r) :
          /\ received < MaxAdminRequests
          /\ Register(r, body)
    \/ \E r \in Requests, dbOk \in BOOLEAN : RegisterSelectDone(r, dbOk)
    \/ \E r \in Requests, dbOk \in BOOLEAN : RegisterInsertDone(r, dbOk)
    \/ \E r \in Requests, botId \in {BotA, BotUnknown}, credential \in Credentials :
          /\ received < MaxAdminRequests
          /\ DeleteBot(r, botId, credential)
    \/ \E r \in Requests, dbOk \in BOOLEAN : DeleteDone(r, dbOk)

SpecAdmin == Init /\ [][NextAdmin]_vars

\* a second tenant, registered under the name "A B", and a caller whose
\* identifier holds an underscore
NameAB == <<"A"," ","B">>
BotAB == deriveBotId(NameAB)
SecretAB == <<"secAB">>
RowAB ==
    [ student_name |-> NameAB, skill_type |-> <<"S">>,
      channel_access_token |-> <<"tokAB">>, channel_secret |-> SecretAB,
      system_prompt |-> <<"promptAB">> ]
UbU1 == <<"b","_","U","1">>

\* the (tenant, caller) pairs of SpecPairs, and the secret of each tenant
Pairs == { <<BotA, U1>>, <<BotA, UbU1>>, <<BotAB, U1>> }
SecretOf(botId) == IF botId = BotA THEN SecretA ELSE SecretAB

\* what a caller may send in SpecPairs
PairTexts == { TxtHi, CmdReset, CmdListen }

\* both tenants are registered
InitPairs ==
    /\ bots = [ id \in {BotA, BotAB} |-> IF id = BotA THEN RowA ELSE RowAB ]
    /\ conversationHistory = <<>>
    /\ lastBotResponse = <<>>
    /\ audioStorage = <<>>
    /\ audioSeq = 0
    /\ now = 0
    /\ ttsKey = TRUE
    /\ task = [ t \in Tasks |-> IdleTask ]
    /\ running = None
    /\ received = 0
    /\ fetched = NoFetch
    /\ admin = [ r \in Requests |-> IdleRequest ]
    /\ streak = <<>>

\* callers of two tenants send texts, /reset and /listen, one delivery
\* after the other
NextPairs ==
    \/ \E p \in Pairs, text \in PairTexts :
          LET raw == << TextEvent(p[2], text) >>
          IN  /\ received < MaxPairDeliveries
              /\ Receive(1, p[1], raw, HmacBase64(SecretOf(p[1]), raw))
    \/ LookupDone(1, TRUE)
    \/ HandleReset(1)
    \/ HandleListen(1)
    \/ HandleText(1)
    \/ \E res \in Results({ <<"o","k">> }) : CompletionDone(1, res)
    \/ \E ok \in BOOLEAN :
          \/ ReplyDone(1, ok)
          \/ ListenTtsDone(1, ok)
          \/ ListenReplyDone(1, ok)
          \/ TextReplyDone(1, ok)
          \/ LogDone(1, ok)
    \/ Respond200(1)

SpecPairs == InitPairs /\ [][NextPairs]_vars

\* what a caller may send in SpecReset: a text that asks for speech, a
\* /reset and a /listen
ResetTexts == { TxtHear, CmdReset, CmdListen }

InitReset == Init /\ ttsKey = TRUE

\* two callers of one tenant send texts, /reset and /listen, one delivery
\* after the other
NextReset ==
    \/ \E userId \in {U1, U2}, text \in ResetTexts :
          LET raw == << TextEvent(userId, text) >>
          IN  /\ received < MaxResetDeliveries
              /\ Receive(1, BotA, raw, HmacBase64(SecretA, raw))
    \/ LookupDone(1, TRUE)
    \/ HandleReset(1)
    \/ HandleListen(1)
    \/ HandleText(1)
    \/ \E res \in Results({ <<"o","k">> }) : CompletionDone(1, res)
    \/ \E ok \in BOOLEAN :
          \/ ReplyDone(1, ok)
          \/ ListenTtsDone(1, ok)
          \/ ListenReplyDone(1, ok)
          \/ TextReplyDone(1, ok)
          \/ AutoTtsDone(1, ok)
          \/ AutoPushDone(1, ok)
          \/ LogDone(1, ok)
    \/ Respond200(1)

SpecReset == InitReset /\ [][NextReset]_vars

\* the registration that brings tenant a back, with its secret and another
\* prompt, and the prompts a replacement may carry (the empty one replaces
\* nothing)
PromptNew == <<"promptNew">>
LifeBody == [ RegBody(<<"A">>, 1, PromptNew) EXCEPT !.channelSecret = SecretA ]
LifePrompts == { <<"promptPut">>, <<>> }
LifeTexts == { TxtHi, CmdListen }

InitLife == Init /\ ttsKey = FALSE

\* a caller of tenant a sends texts and /listen while the tenant is
\* removed, registered again and given other prompts
NextLife ==
    \/ \E text \in LifeTexts :
          LET raw == << TextEvent(U1, text) >>
          IN  /\ received < MaxLifeRequests
              /\ Receive(1, BotA, raw, HmacBase64(SecretA, raw))
    \/ \E dbOk \in BOOLEAN : LookupDone(1, dbOk)
    \/ HandleText(1)
    \/ HandleListen(1)
    \/ \E res \in Results({ <<"o","k">> }) : CompletionDone(1, res)
    \/ \E ok \in BOOLEAN :
          \/ ReplyDone(1, ok)
          \/ ListenTtsDone(1, ok)
          \/ ListenReplyDone(1, ok)
          \/ TextReplyDone(1, ok)
          \/ LogDone(1, ok)
    \/ Respond200(1)
    \/ /\ received < MaxLifeRequests
       /\ Register(1, LifeBody)
    \/ \E dbOk \in BOOLEAN : RegisterSelectDone(1, dbOk)
    \/ \E dbOk \in BOOLEAN : RegisterInsertDone(1, dbOk)
    \/ /\ received < MaxLifeRequests
       /\ DeleteBot(1, BotA, AdminCredential)
    \/ \E dbOk \in BOOLEAN : DeleteDone(1, dbOk)
    \/ \E systemPrompt \in LifePrompts :
          /\ received < MaxLifeRequests
          /\ UpdateBot(1, BotA, systemPrompt)
    \/ \E dbOk \in BOOLEAN : UpdateSelectDone(1, dbOk)
    \/ \E dbOk \in BOOLEAN : UpdateDone(1, dbOk)

SpecLife == InitLife /\ [][NextLife]_vars

----------------------------------------------------------------------------
(* Properties *)

Min(a, b) == IF a < b THEN a ELSE b

Count(out, api) == Cardinality({ i \in 1..Len(out) : out[i].api = api })

\* the task has just ended the handling of an event with this outcome
Ended(t, outcome) == task[t].pc = "loop" /\ task[t].outcome = outcome

\* the event whose handling the task has just ended, and its session key
PrevEvent(t) == task[t].events[task[t].idx - 1]
PrevKey(t) == historyKey(task[t].botId, PrevEvent(t).userId)

\* the task is about to dispatch a text event with this lower-cased text
AtText(t, cmd) ==
    /\ AtEvent(t)
    /\ IsTextEvent(Event(t))
    /\ toLowerCase(Event(t).text) = cmd

\* task t takes this step
Steps(t) == task'[t] # task[t]

Commands == { CmdReset, CmdHelp, CmdListen }

\* a completion is in flight for the session key
InFlight(key) ==
    \E t \in Tasks : task[t].pc \in CompletionPcs /\ KeyOf(t) = key

(* C1: starting from an empty session, after N consecutive successful      *)
(* free-form turns with no failure, reset or overlap, the session holds    *)
(* exactly min(2N, 20) entries.                                            *)
C1_SizeAfterNTurns ==
    \A key \in DOMAIN streak :
        (streak[key] # Broken /\ ~InFlight(key))
            => Len(SessionOf(conversationHistory, key))
                   = Min(2 * streak[key], HistoryLimit)

(* C2: in every reachable state every session holds at most 20 entries,    *)
(* also right after the assistant turn was appended.                       *)
C2_AtMostTwentyEntries ==
    \A key \in DOMAIN conversationHistory :
        Len(conversationHistory[key]) <= HistoryLimit

(* C3: a text whose lower-cased form is /reset empties the caller's        *)
(* session whatever it held, also when it did not exist, and makes one     *)
(* call, the reply with the fixed confirmation: no completion, no log.     *)
C3_ResetEmptiesSession ==
    [][ \A t \in Tasks :
          /\ AtText(t, CmdReset) =>
                /\ KeyOf(t) \in DOMAIN conversationHistory'
                /\ conversationHistory'[KeyOf(t)] = <<>>
                /\ task'[t].pc = "reset_reply"
                /\ task'[t].out =
                       << Call("reply", Event(t).replyToken,
                               << TextMessage(MsgReset) >>) >>
          /\ (task[t].pc = "reset_reply" /\ Steps(t)) =>
                /\ task'[t].pc = "loop"
                /\ task'[t].outcome = "reset"
                /\ task'[t].out = task[t].out
                /\ UNCHANGED <<conversationHistory, lastBotResponse>>
      ]_vars

\* a /reset was handled for a caller who had a turn before
C3_Witness ==
    \E t \in Tasks :
        /\ task[t].pc = "reset_reply"
        /\ task[t].userMessage = TxtResetMixed
        /\ KeyOf(t) \in DOMAIN lastBotResponse
        /\ conversationHistory[KeyOf(t)] = <<>>

\* the delivery of task t passed the lookup and the parse in this step
Looked(t) ==
    /\ task[t].pc = "getBotConfig"
    /\ task'[t].pc # "getBotConfig"
    /\ task'[t].botConfig # <<>>
    /\ JSONparses(task[t].raw)

(* C4: a delivery is accepted if and only if its signature is the base64   *)
(* HMAC-SHA256 of its exact raw bytes under the tenant's secret.           *)
C4_AcceptedIffDigestOfRawBytes ==
    [][ \A t \in Tasks :
          Looked(t) =>
              ( task'[t].pc = "loop"
                  <=> task[t].signature =
                        HmacBase64(task'[t].botConfig[1].channelSecret,
                                   task[t].raw) )
      ]_vars

(* C5: a delivery whose signature does not verify is answered 401 and none *)
(* of its events is processed: no session, last response or audio blob     *)
(* changes and no upstream call is made for it.                            *)
C5_BadSignatureRejected ==
    [][ \A t \in Tasks :
          /\ ( /\ Looked(t)
               /\ ~verifySignature(JSONparse(task[t].raw), task[t].signature,
                                   task'[t].botConfig[1].channelSecret) )
               => /\ task'[t].pc = "done"
                  /\ task'[t].status = 401
                  /\ task'[t].out = <<>>
                  /\ task'[t].idx = 0
                  /\ running' = None
                  /\ UNCHANGED Shared
          /\ (task[t].status = 401 /\ Steps(t)) => task'[t].pc = "getBotConfig"
      ]_vars

\* a delivery that carries a message event was answered 401
C5_Witness ==
    \E t \in Tasks :
        /\ task[t].pc = "done"
        /\ task[t].status = 401
        /\ Len(task[t].raw) > 0
        /\ task[t].raw[1].type = "message"

(* C6: when the completion call of a free-form text turn fails, no         *)
(* assistant turn is appended to the session and the last response keeps   *)
(* its value, to the end of the event.                                     *)
C6_FailedCompletionLeavesSession ==
    [][ \A t \in Tasks :
          ( \/ task[t].pc = "completion" /\ task'[t].pc = "err_reply"
            \/ task[t].pc = "err_reply" /\ Steps(t) )
              => UNCHANGED <<conversationHistory, lastBotResponse>>
      ]_vars

\* a completion failed for a caller who has a last response, and the
\* session ends with the user turn
C6_Witness ==
    \E t \in Tasks :
        /\ task[t].pc = "err_reply"
        /\ KeyOf(t) \in DOMAIN lastBotResponse
        /\ Len(conversationHistory[KeyOf(t)]) = 3
        /\ conversationHistory[KeyOf(t)][3] = Turn("user", task[t].userMessage)

(* C7: a free-form text turn makes exactly one completion call; when it    *)
(* fails the fixed retry-later text is sent exactly once, as a reply, and  *)
(* nothing else is sent.                                                   *)
C7_OneCompletionOneFallback ==
    \A t \in Tasks :
        /\ Ended(t, "text_ok") => Count(task[t].out, "completion") = 1
        /\ Ended(t, "text_failed") =>
              /\ Len(task[t].out) = 2
              /\ task[t].out[1].api = "completion"
              /\ task[t].out[2] =
                     Call("reply", PrevEvent(t).replyToken,
                          << TextMessage(MsgRetryLater) >>)

C7_Witness == \E t \in Tasks : Ended(t, "text_failed")

(* C8: no session holds a user turn whose lower-cased content is /reset,   *)
(* /help or /listen, and no completion request holds such a message,       *)
(* whether the content was typed or transcribed.                           *)
C8_NoCommandInContext ==
    /\ \A key \in DOMAIN conversationHistory :
          \A i \in 1..Len(conversationHistory[key]) :
              conversationHistory[key][i].role = "user"
                  => toLowerCase(conversationHistory[key][i].content)
                        \notin Commands
    /\ \A t \in Tasks : \A i \in 1..Len(task[t].out) :
          task[t].out[i].api = "completion"
              => \A j \in 1..Len(task[t].out[i].messages) :
                    task[t].out[i].messages[j].role = "user"
                        => toLowerCase(task[t].out[i].messages[j].content)
                              \notin Commands

(* C9: after every successful conversation turn of a pair, typed or voice, *)
(* the last response of the pair is that turn's assistant reply.           *)
C9_LastResponseIsTheReply ==
    \A t \in Tasks :
        (Ended(t, "text_ok") \/ Ended(t, "voice_ok"))
            => getLastResponse(lastBotResponse, PrevKey(t))
                   = << task[t].aiResponse >>

\* the calls of a /listen that found this last response and played it
PlayedCalls(text, replyToken, audioId) ==
    << Call("tts", <<>>, << TextMessage(text) >>),
       Call("reply", replyToken, << AudioMessage(audioId) >>) >>

(* C10, as stated: a /listen that found a last response synthesizes      *)
(* speech from exactly that text, stores one blob and replies with an      *)
(* audio message pointing at it.  The outcomes listen_ok and listen_failed *)
(* are those of a /listen that found one; aiResponse holds what it found.  *)
C10_ListenAlwaysPlays ==
    \A t \in Tasks :
        (Ended(t, "listen_ok") \/ Ended(t, "listen_failed"))
            => /\ task[t].audioId \in DOMAIN audioStorage
               /\ task[t].out =
                      PlayedCalls(task[t].aiResponse,
                                  PrevEvent(t).replyToken, task[t].audioId)

ListenPcs == {"nolast_reply", "listen_tts", "listen_reply", "listen_err_reply"}

(* C10, amended: a /listen with no last response, or an empty one, sends   *)
(* the fixed nothing-to-play text and asks for no synthesis; otherwise it  *)
(* asks for the synthesis of the first 5000 characters of the last         *)
(* response and, when that succeeds, stores one blob and replies with an   *)
(* audio message pointing at it; when the synthesis or that reply fails it *)
(* stores nothing more and replies with the fixed no-audio text.  It makes *)
(* no completion call and changes no session and no last response.         *)
C10_Listen ==
    [][ \A t \in Tasks :
          /\ AtText(t, CmdListen) =>
                IF \/ KeyOf(t) \notin DOMAIN lastBotResponse
                   \/ lastBotResponse[KeyOf(t)] = <<>>
                THEN /\ task'[t].pc = "nolast_reply"
                     /\ task'[t].out =
                            << Call("reply", Event(t).replyToken,
                                    << TextMessage(MsgNothingToPlay) >>) >>
                ELSE /\ task'[t].pc = "listen_tts"
                     /\ task'[t].aiResponse = lastBotResponse[KeyOf(t)]
                     /\ task'[t].out =
                            << Call("tts", <<>>,
                                 << TextMessage(SubSeq(lastBotResponse[KeyOf(t)], 1,
                                      Min(Len(lastBotResponse[KeyOf(t)]),
                                          TtsMaxChars))) >>) >>
          /\ (task[t].pc = "listen_tts" /\ task'[t].pc = "listen_reply") =>
                /\ DOMAIN audioStorage' \ DOMAIN audioStorage
                       = { task'[t].audioId }
                /\ audioStorage'[task'[t].audioId].buffer
                       = Synthesized(SubSeq(task[t].aiResponse, 1,
                             Min(Len(task[t].aiResponse), TtsMaxChars)))
                /\ task'[t].out =
                       Append(task[t].out,
                              Call("reply", Event(t).replyToken,
                                   << AudioMessage(task'[t].audioId) >>))
          /\ (task[t].pc \in {"listen_tts", "listen_reply"} /\ Steps(t)
                 /\ task'[t].pc \notin {"listen_reply", "loop"}) =>
                /\ task'[t].pc = "listen_err_reply"
                /\ audioStorage' = audioStorage
                /\ task'[t].out =
                       Append(task[t].out,
                              Call("reply", Event(t).replyToken,
                                   << TextMessage(MsgNoAudio) >>))
          /\ ((AtText(t, CmdListen) \/ task[t].pc \in ListenPcs) /\ Steps(t)) =>
                /\ UNCHANGED <<conversationHistory, lastBotResponse>>
                /\ Count(task'[t].out, "completion") = 0
                /\ Count(task'[t].out, "tts") <= 1
      ]_vars

\* a /listen has played a last response: the blob is stored and the reply
\* points at it
C10_Witness ==
    \E t \in Tasks :
        /\ Ended(t, "listen_ok")
        /\ task[t].audioId \in DOMAIN audioStorage
        /\ task[t].aiResponse = <<"o","k">>
        /\ task[t].out =
               PlayedCalls(task[t].aiResponse,
                           PrevEvent(t).replyToken, task[t].audioId)

\* the blob was stored more than five minutes before this time
Expired(storage, audioId, time) ==
    /\ audioId \in DOMAIN storage
    /\ storage[audioId].createdAt < time - AudioTtlMinutes

(* C11: a fetch of a blob that was stored more than 5 minutes ago answers   *)
(* 404, also when no store call has happened since it expired and its      *)
(* bytes are still in the map.                                             *)
C11_ExpiredBlobNotFound ==
    [][ (fetched' # fetched /\ Expired(audioStorage, fetched'.audioId, now))
            => fetched'.status = 404
      ]_vars

\* the blobs a step removes
Removed == DOMAIN audioStorage \ DOMAIN audioStorage'

(* C12: only a store call removes blobs, and it removes exactly the blobs  *)
(* older than 5 minutes: what is 5 minutes old or younger stays, the new   *)
(* blob included; a fetch and every other step removes none.               *)
C12_EvictionOnlyOnStoreAndExact ==
    [][ /\ audioSeq' = audioSeq => Removed = {}
        /\ audioSeq' # audioSeq =>
              /\ Removed = { id \in DOMAIN audioStorage :
                               now - audioStorage[id].createdAt > AudioTtlMinutes }
              /\ \E id \in DOMAIN audioStorage' \ DOMAIN audioStorage :
                    /\ DOMAIN audioStorage' = (DOMAIN audioStorage \ Removed) \cup {id}
                    /\ audioStorage'[id].createdAt = now
              /\ \A id \in DOMAIN audioStorage \ Removed :
                    audioStorage'[id] = audioStorage[id]
      ]_vars

\* a store call has kept a blob that was exactly five minutes old, and a
\* fetch has been answered since
C12_Witness ==
    /\ \E a, b \in DOMAIN audioStorage :
          audioStorage[b].createdAt - audioStorage[a].createdAt = AudioTtlMinutes
    /\ fetched.status = 200

\* the pcs of a task whose delivery passed lookup, parse and verification
Accepted(t) == task[t].pc \notin {"idle", "getBotConfig", "done"}

(* C13: once a delivery has passed lookup, parsing and verification, every *)
(* step of its task either goes on with the same event, or ends the event, *)
(* failed or not, and goes on in the loop with the next one, or answers    *)
(* 200 after the last event: no failure ends the loop early or gives       *)
(* another status.                                                         *)
C13_FailureDoesNotStopTheBatch ==
    [][ \A t \in Tasks :
          (Accepted(t) /\ Steps(t)) =>
              \/ /\ task'[t].idx = task[t].idx
                 /\ Accepted(t)'
                 /\ task'[t].pc # "loop"
                 /\ task'[t].status = 0
              \/ /\ task'[t].idx = task[t].idx + 1
                 /\ task[t].idx <= Len(task[t].events)
                 /\ task'[t].pc = "loop"
                 /\ task'[t].events = task[t].events
                 /\ task'[t].status = 0
                 /\ running' = {t}
              \/ /\ task[t].pc = "loop"
                 /\ task[t].idx = Len(task[t].events) + 1
                 /\ task'[t].pc = "done"
                 /\ task'[t].status = 200
      ]_vars

\* the completion of the first event of a batch failed, its second event
\* was handled, and the loop is at its end
C13_Witness ==
    \E t \in Tasks :
        /\ Ended(t, "listen_none")
        /\ task[t].idx = 3
        /\ Len(task[t].events) = 2
        /\ SessionOf(conversationHistory, PrevKey(t)) = << Turn("user", TxtHear) >>

\* the call is a reply that carries the retry-later text
IsRetryLaterReply(call) ==
    /\ call.api = "reply"
    /\ call.messages = << TextMessage(MsgRetryLater) >>

(* C14: when the user text holds an audio keyword, the synthesis is asked  *)
(* for after the text reply was sent and the last response stored; a       *)
(* failure of the synthesis or of the audio push sends no retry-later      *)
(* reply and leaves the session and the last response of the turn as they  *)
(* are.                                                                    *)
C14_AutoSpeechAfterReply ==
    [][ \A t \in Tasks :
          /\ (task[t].pc # "auto_tts" /\ task'[t].pc = "auto_tts") =>
                /\ task[t].pc = "text_reply"
                /\ Len(task[t].out) = 2
                /\ task[t].out[2] =
                       Call("reply", Event(t).replyToken,
                            splitReply(task[t].aiResponse))
                /\ task'[t].out = Append(task[t].out, Tts(task[t].aiResponse))
                /\ lastBotResponse'[KeyOf(t)] = task[t].aiResponse
          /\ (task[t].pc \in {"auto_tts", "auto_push"} /\ Steps(t)) =>
                /\ task'[t].pc \in {"auto_push", "log"}
                /\ UNCHANGED <<conversationHistory, lastBotResponse>>
                /\ Count(task'[t].out, "reply") = 1
                /\ \A i \in 1..Len(task'[t].out) :
                      ~IsRetryLaterReply(task'[t].out[i])
          /\ (task[t].pc = "log" /\ Count(task[t].out, "tts") = 1 /\ Steps(t)) =>
                /\ task'[t].outcome = "text_ok"
                /\ task'[t].out = task[t].out
                /\ UNCHANGED <<conversationHistory, lastBotResponse>>
      ]_vars

\* a turn with an audio keyword has ended after its synthesis failed: the
\* reply was sent, nothing was pushed, the last response is the reply
C14_Witness ==
    \E t \in Tasks :
        /\ Ended(t, "text_ok")
        /\ task[t].userMessage = TxtHear
        /\ Count(task[t].out, "tts") = 1
        /\ Count(task[t].out, "push") = 0
        /\ getLastResponse(lastBotResponse, PrevKey(t)) = << task[t].aiResponse >>
        /\ task[t].aiResponse = <<"o","k">>

\* the texts of a sequence of messages, one after the other
RECURSIVE Concat(_)
Concat(messages) ==
    IF Len(messages) = 0 THEN <<>>
    ELSE messages[1].text \o Concat(Tail(messages))

Ceil(a, b) == (a + b - 1) \div b

\* the messages are a split of the text into the fewest chunks of at most
\* 4500 units, in order, with nothing dropped and nothing twice
IsSplitOf(messages, text) ==
    /\ Len(messages) = IF Len(text) > maxLength
                       THEN Ceil(Len(text), maxLength) ELSE 1
    /\ \A i \in 1..Len(messages) :
          /\ messages[i].type = "text"
          /\ Len(messages[i].text) <= maxLength
    /\ Concat(messages) = text

(* C15: the reply of a typed turn is sent as one message when it is at     *)
(* most 4500 characters long, and otherwise as ceil(length/4500) text      *)
(* messages of at most 4500 characters each whose concatenation is the     *)
(* reply: 9001 characters give 3 chunks.                                   *)
C15_SplitIsExact ==
    \A t \in Tasks :
        task[t].pc = "text_reply" =>
            /\ task[t].out[2].api = "reply"
            /\ IsSplitOf(task[t].out[2].messages, task[t].aiResponse)

\* a reply of 9001 characters is being sent in 3 chunks
C15_Witness ==
    \E t \in Tasks :
        /\ task[t].pc = "text_reply"
        /\ Len(task[t].aiResponse) = 2 * maxLength + 1
        /\ Len(task[t].out[2].messages) = 3

(* C16: every text message sent to the caller in a conversation turn,      *)
(* typed or voice, as a reply or as a push, is at most 4500 characters     *)
(* long.                                                                   *)
C16_EveryMessageWithinLimit ==
    \A t \in Tasks : \A i \in 1..Len(task[t].out) :
        task[t].out[i].api \in {"reply", "push"} =>
            \A j \in 1..Len(task[t].out[i].messages) :
                task[t].out[i].messages[j].type = "text"
                    => Len(task[t].out[i].messages[j].text) <= maxLength

\* the session a typed free-form turn leaves when its text was pushed: the
\* turn is appended, and of more than 20 entries the last 20 are kept
AfterUserTurn(session, text) ==
    LET pushed == session \o << [ role |-> "user", content |-> text ] >>
    IN  IF Len(pushed) > HistoryLimit
        THEN [ i \in 1..HistoryLimit |-> pushed[Len(pushed) - HistoryLimit + i] ]
        ELSE pushed

\* the transcript echo, a blank line, the feedback
EchoAndFeedback(transcript, feedback) ==
    << "U+D83D","U+DCDD"," ","I"," ","h","e","a","r","d"," ",
       "y","o","u"," ","s","a","y",":","\n","\"" >>
        \o transcript \o << "\"" >> \o << "\n", "\n" >> \o feedback

(* C17: a voice turn whose transcription succeeds appends the transcript   *)
(* to the caller's session as a user turn, truncated as a typed turn is,   *)
(* and asks for a completion of the system prompt and that session; when   *)
(* the completion succeeds the feedback is appended as the assistant turn  *)
(* and the reply is the transcript echo, a blank line and the feedback.    *)
C17_VoiceTurnAsTypedTurn ==
    [][ \A t \in Tasks :
          /\ (task[t].pc = "transcribe" /\ task'[t].pc = "voice_completion") =>
                LET session == AfterUserTurn(
                                   SessionOf(conversationHistory, KeyOf(t)),
                                   task'[t].userMessage)
                IN  /\ conversationHistory'[KeyOf(t)] = session
                    /\ task'[t].out[Len(task'[t].out)] =
                           Call("completion", <<>>,
                                << [ role |-> "system",
                                     content |-> Config(t).systemPrompt ] >>
                                    \o session)
          /\ (task[t].pc = "voice_completion" /\ task'[t].pc = "voice_reply") =>
                /\ conversationHistory'[KeyOf(t)] =
                       SessionOf(conversationHistory, KeyOf(t))
                           \o << [ role |-> "assistant",
                                   content |-> task'[t].aiResponse ] >>
                /\ task'[t].out =
                       Append(task[t].out,
                              Call("reply", Event(t).replyToken,
                                   << TextMessage(EchoAndFeedback(
                                        task[t].userMessage,
                                        task'[t].aiResponse)) >>))
          /\ (task[t].pc \in {"voice_reply", "voice_log"} /\ Steps(t)) =>
                /\ UNCHANGED conversationHistory
                /\ Count(task'[t].out, "reply") = 1
      ]_vars

\* a voice turn on a full session has succeeded: the oldest entries were
\* cut when the transcript was pushed
C17_Witness ==
    \E t \in Tasks :
        /\ task[t].pc = "voice_reply"
        /\ Len(conversationHistory[KeyOf(t)]) = HistoryLimit + 1
        /\ conversationHistory[KeyOf(t)][HistoryLimit + 1] =
               Turn("assistant", task[t].aiResponse)
        /\ conversationHistory[KeyOf(t)][HistoryLimit] =
               Turn("user", task[t].userMessage)

\* the push of the fixed voice retry text to the caller of the event
RetryPush(event) ==
    Call("push", event.userId, << TextMessage(MsgVoiceRetry) >>)

(* C18: when the download, the transcription or the completion of a voice  *)
(* turn fails, the fixed retry text is pushed to the caller, once and not   *)
(* with the reply token; whether that push fails or not the event ends and *)
(* nothing more is sent; a failed download or transcription leaves every   *)
(* session as it is.                                                       *)
C18_VoiceFailurePushesOnce ==
    [][ \A t \in Tasks :
          /\ ( /\ task[t].pc \in {"download", "transcribe", "voice_completion"}
               /\ Steps(t)
               /\ task'[t].pc \notin {"transcribe", "voice_completion",
                                      "voice_reply"} ) =>
                /\ task'[t].pc = "voice_push"
                /\ task'[t].out = Append(task[t].out, RetryPush(Event(t)))
                /\ Count(task'[t].out, "push") = 1
                /\ Count(task'[t].out, "reply") = 0
                /\ task[t].pc \in {"download", "transcribe"}
                       => UNCHANGED conversationHistory
          /\ (task[t].pc = "voice_push" /\ Steps(t)) =>
                /\ task'[t].pc = "loop"
                /\ task'[t].idx = task[t].idx + 1
                /\ task'[t].outcome = "voice_failed"
                /\ task'[t].out = task[t].out
                /\ UNCHANGED <<conversationHistory, lastBotResponse>>
      ]_vars

\* a voice turn has ended after its transcription failed: the download and
\* the transcription were called, the retry text was pushed, and the caller
\* has no session
C18_Witness ==
    \E t \in Tasks :
        /\ Ended(t, "voice_failed")
        /\ Len(task[t].out) = 3
        /\ task[t].out[2].api = "stt"
        /\ task[t].out[3] = RetryPush(PrevEvent(t))
        /\ PrevKey(t) \notin DOMAIN conversationHistory

\* request r takes this step
Acts(r) == admin'[r] # admin[r]

C20_LoserGetsDuplicateError ==
    \A r, o \in Requests :
        ( /\ r # o
          /\ admin[r].pc = "done" /\ admin[o].pc = "done"
          /\ admin[r].botId = admin[o].botId
          /\ admin[r].status = 200
          /\ ~missingFields(admin[o].body)
          /\ admin[o].thrown # "query_failed" )
            => /\ admin[o].status = 409
               /\ bots[admin[r].botId] = rowOf(admin[r].body)

(* C21: a removal request that carries no valid admin credential is        *)
(* rejected and leaves the registry as it is; only a request with the      *)
(* credential removes a tenant.                                            *)
C21_RemovalNeedsCredential ==
    [][ \A r \in Requests :
          ( /\ admin[r].pc = "delete"
            /\ Acts(r)
            /\ admin[r].body.credential # AdminCredential )
              => /\ UNCHANGED bots
                 /\ admin'[r].status # 200
      ]_vars

\* the registrations whose identifier was derived
Derived(r) ==
    /\ admin[r].op = "register"
    /\ ~missingFields(admin[r].body)

AllowedInId(c) ==
    \/ c = "_"
    \/ \E i \in 1..26 : Lower[i] = c
    \/ \E i \in 1..10 : Digits[i] = c

(* C22, as stated: the identifier has the length of the name, holds only   *)
(* [a-z0-9_], and is the name with each character lower-cased and, when it *)
(* is then outside [a-z0-9], replaced by an underscore.                    *)
C22_IdHasLengthOfName ==
    \A r \in Requests :
        Derived(r) =>
            /\ Len(admin[r].botId) = Len(admin[r].body.studentName)
            /\ \A i \in 1..Len(admin[r].botId) : AllowedInId(admin[r].botId[i])

\* the name holds no character whose lower-case form is longer than itself
PlainCase(name) == \A i \in 1..Len(name) : name[i] # "U+0130"

(* C22, amended: the identifier is the lower-cased name with every code    *)
(* unit outside [a-z0-9] replaced one-for-one by an underscore: it holds   *)
(* only [a-z0-9_] and has the length of the lower-cased name, which is the *)
(* length of the name unless the name holds a character whose lower-case   *)
(* form is longer (U+0130); two registrations of one name derive one       *)
(* identifier.                                                             *)
C22_DerivedId ==
    \A r \in Requests :
        Derived(r) =>
            LET name == admin[r].body.studentName
                id == admin[r].botId
            IN  /\ Len(id) = Len(toLowerCase(name))
                /\ \A i \in 1..Len(id) :
                      /\ AllowedInId(id[i])
                      /\ id[i] # "_" => id[i] = toLowerCase(name)[i]
                      /\ id[i] = "_" => ~IsLowerOrDigit(toLowerCase(name)[i])
                /\ PlainCase(name) =>
                      /\ Len(id) = Len(name)
                      /\ \A i \in 1..Len(id) :
                            \/ id[i] = name[i]
                            \/ \E k \in 1..26 : name[i] = Upper[k] /\ id[i] = Lower[k]
                            \/ id[i] = "_" /\ ~AllowedInId(name[i])
                            \/ id[i] = "_" /\ name[i] = "_"
                /\ name = NameJohnDoe =>
                      id = <<"j","o","h","n","_","d","o","e","_","_">>
                /\ \A o \in Requests :
                      (Derived(o) /\ admin[o].body.studentName = name)
                          => admin[o].botId = id

\* John Doe!! was registered as john_doe__, and a name with a capital I
\* with a dot as i_
C22_Witness ==
    \E r, o \in Requests :
        /\ Derived(r) /\ Derived(o)
        /\ admin[r].body.studentName = NameJohnDoe
        /\ admin[r].botId = <<"j","o","h","n","_","d","o","e","_","_">>
        /\ admin[o].body.studentName = NameDottedI
        /\ admin[o].botId = <<"i","_">>

(* C23: turns of one pair are not serialized.  A user turn is appended at  *)
(* the end of the session also while a completion for the pair is in       *)
(* flight, and an assistant turn is appended at the end of the session as  *)
(* it is when its completion returns, so that overlapping turns leave      *)
(* user, user, assistant, assistant with the assistant turns in the order  *)
(* the completions returned.                                               *)
C23_OverlappingTurnsInterleave ==
    [][ \A t \in Tasks :
          /\ (AtEvent(t) /\ task'[t].pc = "completion") =>
                conversationHistory'[KeyOf(t)] =
                    sliceLast(SessionOf(conversationHistory, KeyOf(t))
                                  \o << Turn("user", Event(t).text) >>,
                              HistoryLimit)
          /\ (task[t].pc = "completion" /\ task'[t].pc = "text_reply") =>
                conversationHistory'[KeyOf(t)] =
                    conversationHistory[KeyOf(t)]
                        \o << Turn("assistant", task'[t].aiResponse) >>
      ]_vars

\* two turns of one pair overlapped: both user turns came before both
\* assistant turns, and the turn that arrived second was answered first
C23_Witness ==
    /\ task[1].pc = "text_reply"
    /\ task[2].pc = "text_reply"
    /\ KeyOf(1) = KeyOf(2)
    /\ task[1].userMessage # task[2].userMessage
    /\ task[1].aiResponse # task[2].aiResponse
    /\ conversationHistory[KeyOf(1)] =
           << Turn("user", task[1].userMessage),
              Turn("user", task[2].userMessage),
              Turn("assistant", task[2].aiResponse),
              Turn("assistant", task[1].aiResponse) >>

\* the last call the task has made
LastCall(t) == task[t].out[Len(task[t].out)]

(* C24: every completion request is the tenant's system prompt followed by *)
(* the caller's session as it is after the user turn was appended and the  *)
(* cap applied, in session order: at most 21 messages, the last of which   *)
(* is the user turn of this call.                                          *)
C24_RequestIsPromptAndSession ==
    [][ \A t \in Tasks :
          (task[t].pc \notin CompletionPcs /\ task'[t].pc \in CompletionPcs) =>
              LET request == LastCall(t)'.messages
                  session == conversationHistory'[KeyOf(t)]
              IN  /\ LastCall(t)'.api = "completion"
                  /\ Len(request) <= HistoryLimit + 1
                  /\ request[1] =
                         [ role |-> "system", content |-> Config(t).systemPrompt ]
                  /\ Len(request) = Len(session) + 1
                  /\ \A i \in 1..Len(session) : request[i + 1] = session[i]
                  /\ request[Len(request)] =
                         [ role |-> "user", content |-> task'[t].userMessage ]
      ]_vars

\* a completion request of 21 messages is in flight: the session was cut
\* before the request was built
C24_Witness ==
    \E t \in Tasks :
        /\ task[t].pc = "completion"
        /\ Len(LastCall(t).messages) = HistoryLimit + 1
        /\ StreakOf(KeyOf(t)) > HistoryLimit \div 2
        /\ LastCall(t).messages[HistoryLimit + 1] = Turn("user", task[t].userMessage)

\* the lookup of the delivery of task t is answered in this step
LookupAnswered(t) == task[t].pc = "getBotConfig" /\ Steps(t)

(* C25: a delivery gets one status.  An unknown tenant gives 404 whatever  *)
(* the body and the signature; for a tenant that was found an unparseable  *)
(* body gives 400 whatever the signature; else a signature that does not   *)
(* verify gives 401; else the events are processed and the status is 200.  *)
(* With 404, 400 and 401 no event is processed.                            *)
C25_OneStatusInOrder ==
    [][ \A t \in Tasks :
          /\ LookupAnswered(t) =>
                /\ task[t].botId \notin DOMAIN bots => task'[t].status = 404
                /\ task'[t].status =
                       IF task'[t].botConfig = <<>> THEN 404
                       ELSE IF ~JSONparses(task[t].raw) THEN 400
                       ELSE IF ~verifySignature(JSONparse(task[t].raw),
                                                task[t].signature,
                                                task'[t].botConfig[1].channelSecret)
                            THEN 401
                       ELSE 0
                /\ task'[t].status # 0 =>
                      /\ task'[t].pc = "done"
                      /\ task'[t].idx = 0
                      /\ task'[t].out = <<>>
                      /\ UNCHANGED Shared
                /\ task'[t].status = 0 =>
                      /\ task'[t].pc = "loop"
                      /\ task'[t].idx = 1
          /\ (Accepted(t) /\ Steps(t)) => task'[t].status \in {0, 200}
          /\ (task[t].status # 0 /\ Steps(t)) =>
                /\ task[t].pc = "done"
                /\ task'[t].pc = "getBotConfig"
                /\ task'[t].status = 0
      ]_vars

\* a delivery for an unknown tenant with an unparseable body was answered
\* 404, and another with an unparseable body and a signature that could
\* not verify was answered 400
C25_Witness ==
    \E t, o \in Tasks :
        /\ task[t].pc = "done" /\ task[t].status = 404
        /\ task[t].raw = << Bad >>
        /\ task[o].pc = "done" /\ task[o].status = 400
        /\ task[o].signature = HmacBase64(<<"other">>, << Bad >>)

\* the session and the last response of a (tenant, caller) pair
SessionOfPair(p) == SessionOf(conversationHistory, historyKey(p[1], p[2]))
LastOfPair(p) == getLastResponse(lastBotResponse, historyKey(p[1], p[2]))

\* task t handles an event of the pair in this step
ActsFor(t, p) ==
    /\ Steps(t)
    /\ task[t].idx \in 1..Len(task[t].events)
    /\ << task[t].botId, Event(t).userId >> = p

(* C26: the session and the last response of a pair change only in a step  *)
(* that handles an event of that pair, for tenant identifiers that hold an *)
(* underscore and caller identifiers of any form: a turn, a /reset or a    *)
(* /listen of another pair leaves them unchanged.                          *)
C26_PairsAreIsolated ==
    [][ \A p \in Pairs :
          ( \/ SessionOfPair(p)' # SessionOfPair(p)
            \/ LastOfPair(p)' # LastOfPair(p) )
              => \E t \in Tasks : ActsFor(t, p)
      ]_vars

\* the session holds the user turn with this text
HoldsUserTurn(turns, text) ==
    \E i \in 1..Len(turns) : turns[i] = Turn("user", text)

(* C27: after a /reset of a pair the session of the pair receives no       *)
(* assistant reply to a user message from before the reset, also when the  *)
(* completion was in flight while the reset ran: an assistant turn is      *)
(* appended only to a session that still holds the user turn it answers,   *)
(* and every non-empty session begins with a user turn.                    *)
C27_NoReplyAcrossReset ==
    [][ /\ \A t \in Tasks :
              (task[t].pc = "completion" /\ task'[t].pc = "text_reply") =>
                  /\ HoldsUserTurn(conversationHistory[KeyOf(t)],
                                   task[t].userMessage)
                  /\ conversationHistory'[KeyOf(t)] =
                         conversationHistory[KeyOf(t)]
                             \o << Turn("assistant", task'[t].aiResponse) >>
        /\ \A key \in DOMAIN conversationHistory' :
              Len(conversationHistory'[key]) > 0 =>
                  conversationHistory'[key][1].role = "user"
      ]_vars

(* C28: the 200 of an accepted delivery is sent only when the loop has     *)
(* gone past the last event; the loop starts at the first event, handles   *)
(* one event at a time, and moves to the next one, by one, only when the   *)
(* awaited calls of the event in hand are over, auto speech and logging    *)
(* included; and when every awaited call returns or fails, the 200 is      *)
(* eventually sent.                                                        *)
C28_AnswerAfterTheWholeBatch ==
    /\ [][ \A t \in Tasks :
             /\ (Steps(t) /\ task'[t].status = 200) =>
                   /\ task[t].pc = "loop"
                   /\ task[t].idx = Len(task[t].events) + 1
             /\ (Steps(t) /\ ~Accepted(t) /\ Accepted(t)') =>
                   /\ task'[t].pc = "loop"
                   /\ task'[t].idx = 1
                   /\ task'[t].events = JSONparse(task[t].raw).events
             /\ (Steps(t) /\ Accepted(t) /\ Accepted(t)') =>
                   /\ task'[t].events = task[t].events
                   /\ task[t].idx <= Len(task[t].events)
                   /\ IF task'[t].pc = "loop"
                      THEN task'[t].idx = task[t].idx + 1
                      ELSE task'[t].idx = task[t].idx
                   /\ task'[t].pc = "loop" => running' = {t}
                   /\ task'[t].pc # "loop" => running' = None
         ]_vars
    /\ \A t \in Tasks :
          Accepted(t) ~> (task[t].pc = "done" /\ task[t].status = 200)

\* a delivery of a text that asks for speech and of a /listen was answered
\* 200 after the blobs of both events were stored
C28_Witness ==
    /\ received = 1
    /\ task[1].pc = "done"
    /\ task[1].status = 200
    /\ audioSeq = 2
    /\ Cardinality(DOMAIN audioStorage) = 2

\* the reply calls the task has made for the event in hand that carry the
\* reply token of that event
RepliesWithToken(t) ==
    { i \in 1..Len(task[t].out) :
        /\ task[t].out[i].api = "reply"
        /\ task[t].idx \in 1..Len(task[t].events)
        /\ task[t].out[i].to = Event(t).replyToken }

(* C29: for every event the handler makes at most one reply call that      *)
(* carries the reply token of the event, on the command, text, voice and   *)
(* follow paths and whatever upstream calls fail.                          *)
C29_OneReplyPerToken ==
    \A t \in Tasks : Cardinality(RepliesWithToken(t)) <= 1

\* no two consecutive turns of the session have the same role
Alternates(turns) ==
    \A i \in 1..(Len(turns) - 1) : turns[i].role # turns[i + 1].role

(* C30, as stated: where deliveries of one pair do not overlap, no session *)
(* ever holds two consecutive turns of the same role, whatever successful  *)
(* turns, failed turns and resets came before.                             *)
C30_StrictAlternation ==
    \A key \in DOMAIN conversationHistory :
        Alternates(conversationHistory[key])

(* C30, amended: where deliveries of one pair do not overlap, no session   *)
(* holds two consecutive assistant turns, and a session whose completions  *)
(* have all succeeded since its last reset alternates strictly; a failed   *)
(* completion leaves its user turn, so that the next user turn follows a   *)
(* user turn.                                                              *)
C30_AlternationUnlessFailed ==
    \A key \in DOMAIN conversationHistory :
        LET turns == conversationHistory[key]
        IN  /\ \A i \in 1..(Len(turns) - 1) :
                  turns[i].role = "assistant" => turns[i + 1].role = "user"
            /\ StreakOf(key) # Broken => Alternates(turns)
            /\ (Len(turns) > 0 /\ ~InFlight(key) /\ StreakOf(key) # Broken) =>
                  turns[Len(turns)].role = "assistant"

\* a completion failed and the next turn of the caller succeeded: the
\* session holds user, user, assistant
C30_Witness ==
    \E key \in DOMAIN conversationHistory :
        /\ Len(conversationHistory[key]) = 3
        /\ conversationHistory[key][1].role = "user"
        /\ conversationHistory[key][2].role = "user"
        /\ conversationHistory[key][3].role = "assistant"
        /\ StreakOf(key) = Broken
        /\ \A t \in Tasks : task[t].pc \in {"idle", "done"}

\* the session of the key was emptied by a /reset and nothing was pushed
\* to it since: only a /reset leaves an empty session in the map
JustReset(key) ==
    /\ key \in DOMAIN conversationHistory
    /\ conversationHistory[key] = <<>>

(* C31: a /reset, from its dispatch to the end of its reply, changes the   *)
(* session of the caller and nothing else: the sessions of the other keys, *)
(* every last response and every audio blob are left as they are; and a    *)
(* /listen that comes when the session is still empty from the reset asks  *)
(* for the synthesis of the last response from before the reset.           *)
C31_ResetKeepsLastResponseAndBlobs ==
    [][ \A t \in Tasks :
          /\ AtText(t, CmdReset) =>
                /\ UNCHANGED <<lastBotResponse, audioStorage, audioSeq>>
                /\ \A key \in DOMAIN conversationHistory \ {KeyOf(t)} :
                      /\ key \in DOMAIN conversationHistory'
                      /\ conversationHistory'[key] = conversationHistory[key]
                /\ DOMAIN conversationHistory' =
                       DOMAIN conversationHistory \cup {KeyOf(t)}
          /\ (task[t].pc = "reset_reply" /\ Steps(t)) => UNCHANGED Shared
          /\ ( /\ AtText(t, CmdListen)
               /\ JustReset(KeyOf(t))
               /\ KeyOf(t) \in DOMAIN lastBotResponse
               /\ lastBotResponse[KeyOf(t)] # <<>> ) =>
                /\ task'[t].pc = "listen_tts"
                /\ task'[t].aiResponse = lastBotResponse[KeyOf(t)]
                /\ task'[t].out =
                       << Call("tts", <<>>,
                               asMessages(ttsInput(lastBotResponse[KeyOf(t)]))) >>
      ]_vars

\* a text was answered and spoken, the caller has sent /reset and then
\* /listen: the session is empty, the blob of the first turn is still
\* stored, and the synthesis of the answer of the first turn is awaited
C31_Witness ==
    /\ task[1].pc = "listen_tts"
    /\ received = 3
    /\ JustReset(KeyOf(1))
    /\ task[1].aiResponse = <<"o","k">>
    /\ lastBotResponse[KeyOf(1)] = <<"o","k">>
    /\ Cardinality(DOMAIN audioStorage) = 1
    /\ task[1].out = << Tts(<<"o","k">>) >>

(* C32: no registry operation destroys a session: every step of a         *)
(* registration, a removal or a prompt replacement, and every step that    *)
(* changes the registry, leaves every session and every last response as   *)
(* they are; and the next turn of a caller of a tenant that was removed    *)
(* and registered again is appended to that caller's old session and sent  *)
(* with it under the prompt the tenant has now.                            *)
C32_RegistryKeepsSessions ==
    [][ /\ \A r \in Requests :
              Acts(r) => UNCHANGED <<conversationHistory, lastBotResponse>>
        /\ bots' # bots => UNCHANGED <<conversationHistory, lastBotResponse>>
        /\ \A t \in Tasks :
              (AtEvent(t) /\ task'[t].pc = "completion") =>
                  LET old == SessionOf(conversationHistory, KeyOf(t))
                      turn == Turn("user", Event(t).text)
                  IN  /\ conversationHistory'[KeyOf(t)] =
                             sliceLast(Append(old, turn), HistoryLimit)
                      /\ LastCall(t)'.messages =
                             << [ role |-> "system",
                                  content |-> Config(t).systemPrompt ] >>
                                 \o conversationHistory'[KeyOf(t)]
      ]_vars

\* tenant a was removed and registered again with another prompt, and the
\* caller's next text is sent with the turns from before the removal
C32_Witness ==
    /\ BotA \in DOMAIN bots
    /\ bots[BotA].system_prompt = PromptNew
    /\ task[1].pc = "completion"
    /\ LastCall(1).messages =
           << [ role |-> "system", content |-> PromptNew ],
              Turn("user", TxtHi),
              Turn("assistant", <<"o","k">>),
              Turn("user", TxtHi) >>

====
